---- MODULE Spec2Model ----
(***************************************************************************)
(* DiskMan: the in-memory directory-tree cache (lib/cache.py) and the      *)
(* callers that drive it.  Paths and names are Python strings, modelled as *)
(* sequences of one-character strings, so that the string operations the   *)
(* code relies on (startswith, count, dirname, basename, join, abspath)    *)
(* are computed, not assumed.                                              *)
(***************************************************************************)
EXTENDS Integers, Sequences, FiniteSets, TLC

VARIABLES
    fs,               \* the live filesystem: the set of paths that exist
    directory_cache,  \* the DirectoryCache singleton (_directory_cache)
    removes,          \* remove_item calls since the last scan or invalidate
    cycles,           \* history: cycle_sort calls so far
    lastOp,           \* history: the operation that produced this state
    ret,              \* history: what that operation returned
    spinner,          \* the spinner globals of lib/utils.py and the live spinner threads
    scanning,         \* the scan_directory_tree or remove_item call in progress, step by step
    main              \* the locals of main() of DiskMan.py and its place in the loop

vars == <<fs, directory_cache, removes, cycles, lastOp, ret, spinner, scanning, main>>

(***************************************************************************)
(* Bounds of the model.                                                    *)
(***************************************************************************)
MaxRemoves == 2      \* remove_item calls explored after each scan
MaxCycles == 4       \* cycle_sort calls explored
MaxDeletes == 1      \* filesystem deletions explored in one behaviour
MaxThreads == 2      \* spinner threads alive at the same time

(***************************************************************************)
(* Python values.                                                          *)
(***************************************************************************)
sep == "/"
None == <<"None">>
Max(a, b) == IF a >= b THEN a ELSE b
SetMax(S) == CHOOSE x \in S : \A y \in S : y <= x

get(d, k, default) == IF k \in DOMAIN d THEN d[k] ELSE default
put(d, k, v) == (k :> v) @@ d
del(d, k) == [x \in DOMAIN d \ {k} |-> d[x]]

startswith(s, prefix) ==
    /\ Len(prefix) <= Len(s)
    /\ SubSeq(s, 1, Len(prefix)) = prefix

endswith(s, suffix) ==
    /\ Len(suffix) <= Len(s)
    /\ SubSeq(s, Len(s) - Len(suffix) + 1, Len(s)) = suffix

count(s, ch) == Cardinality({i \in 1..Len(s) : s[i] = ch})

\* s.rfind(ch) + 1: the 1-based position of the last ch, 0 when there is none
rfind1(s, ch) ==
    LET I == {i \in 1..Len(s) : s[i] = ch}
    IN IF I = {} THEN 0 ELSE SetMax(I)

RECURSIVE rstrip(_, _)
rstrip(s, ch) ==
    IF s # <<>> /\ s[Len(s)] = ch THEN rstrip(SubSeq(s, 1, Len(s) - 1), ch) ELSE s

RECURSIVE split(_, _)
split(s, ch) ==
    LET I == {i \in 1..Len(s) : s[i] = ch}
    IN IF I = {} THEN <<s>>
       ELSE LET i == CHOOSE x \in I : \A y \in I : x <= y
            IN <<SubSeq(s, 1, i - 1)>> \o split(SubSeq(s, i + 1, Len(s)), ch)

(***************************************************************************)
(* posixpath, as the cache calls it.                                       *)
(***************************************************************************)
dirname(p) ==
    LET i == rfind1(p, sep)
        head == SubSeq(p, 1, i)
    IN IF head # <<>> /\ head # [k \in 1..Len(head) |-> sep]
       THEN rstrip(head, sep)
       ELSE head

basename(p) == SubSeq(p, rfind1(p, sep) + 1, Len(p))

join(a, b) ==
    IF startswith(b, <<sep>>) THEN b
    ELSE IF a = <<>> \/ endswith(a, <<sep>>) THEN a \o b
    ELSE a \o <<sep>> \o b

RECURSIVE norm_comps(_, _)
norm_comps(comps, new_comps) ==
    IF comps = <<>> THEN new_comps
    ELSE LET comp == Head(comps)
         IN IF comp = <<>> \/ comp = <<".">>
            THEN norm_comps(Tail(comps), new_comps)
            ELSE IF comp # <<".", ".">>
                    \/ (new_comps # <<>> /\ new_comps[Len(new_comps)] = <<".", ".">>)
            THEN norm_comps(Tail(comps), Append(new_comps, comp))
            ELSE IF new_comps # <<>>
            THEN norm_comps(Tail(comps), SubSeq(new_comps, 1, Len(new_comps) - 1))
            ELSE norm_comps(Tail(comps), new_comps)

RECURSIVE sep_join(_)
sep_join(comps) ==
    IF comps = <<>> THEN <<>>
    ELSE IF Len(comps) = 1 THEN comps[1]
    ELSE comps[1] \o <<sep>> \o sep_join(Tail(comps))

\* os.path.abspath of an absolute path: normpath
abspath(path) ==
    LET initial_slashes ==
            IF startswith(path, <<sep, sep>>) /\ ~startswith(path, <<sep, sep, sep>>)
            THEN <<sep, sep>> ELSE <<sep>>
    IN initial_slashes \o sep_join(norm_comps(split(path, sep), <<>>))

(***************************************************************************)
(* The filesystem the program runs on.  FsNode gives every object of the   *)
(* universe its kind and metadata; fs is the set of those that exist now.  *)
(*   /            directory                                                *)
(*   /d           directory                                                *)
(*   /d/f         file, 1 byte                                             *)
(*   /d/l         symlink to a file                                        *)
(*   /d/s         directory                                                *)
(*   /d/s/g       file, 2 bytes                                            *)
(*   /d/s/u       file whose stat fails (8 bytes on disk)                  *)
(*   /d2          directory                                                *)
(*   /d2/H        file, 4 bytes                                            *)
(*   /ld          symlink to a directory                                   *)
(*   /x           directory that cannot be listed                          *)
(* and, in the larger tree only:                                           *)
(*   /d/s/f       file, 1 byte, same content as /d/f                       *)
(*   /d2/f        file, 1 byte, same content as /d/f                       *)
(*   /d2/g.F      file, 1 byte, other content                              *)
(*   /ld/t        file, 32 bytes, seen through the symlink /ld             *)
(***************************************************************************)
p_root == <<"/">>
p_d    == <<"/", "d">>
p_d_f  == <<"/", "d", "/", "f">>
p_d_l  == <<"/", "d", "/", "l">>
p_d_s  == <<"/", "d", "/", "s">>
p_d_s_g == <<"/", "d", "/", "s", "/", "g">>
p_d_s_u == <<"/", "d", "/", "s", "/", "u">>
p_d2   == <<"/", "d", "2">>
p_d2_h == <<"/", "d", "2", "/", "H">>
p_d2_k == <<"/", "d", "2", "/", ".", "k">>
p_ld   == <<"/", "l", "d">>
p_x    == <<"/", "x">>
p_nx   == <<"/", "n", "x">>
p_d_s_f == <<"/", "d", "/", "s", "/", "f">>
p_d2_f == <<"/", "d", "2", "/", "f">>
p_d2_gF == <<"/", "d", "2", "/", "g", ".", "F">>
p_ld_t == <<"/", "l", "d", "/", "t">>

File(size, mtime, ok) == [kind |-> "file", size |-> size, mtime |-> mtime, ok |-> ok, target |-> "none"]
Dir(ok) == [kind |-> "dir", size |-> 0, mtime |-> 0, ok |-> ok, target |-> "none"]
\* size and mtime of a symlink are those of its target, as os.stat reports them
Symlink(target) == [kind |-> "symlink", size |-> 32, mtime |-> 9, ok |-> TRUE, target |-> target]

FsNode ==
    (p_root :> Dir(TRUE)) @@ (p_d :> Dir(TRUE)) @@ (p_d_f :> File(1, 3, TRUE))
    @@ (p_d_l :> Symlink("file")) @@ (p_d_s :> Dir(TRUE))
    @@ (p_d_s_g :> File(2, 5, TRUE)) @@ (p_d_s_u :> File(8, 7, FALSE))
    @@ (p_d2 :> Dir(TRUE)) @@ (p_d2_h :> File(4, 2, TRUE))
    @@ (p_d2_k :> File(16, 4, TRUE))
    @@ (p_ld :> Symlink("dir")) @@ (p_x :> Dir(FALSE))
    @@ (p_d_s_f :> File(1, 1, TRUE)) @@ (p_d2_f :> File(1, 1, TRUE))
    @@ (p_d2_gF :> File(1, 1, TRUE)) @@ (p_ld_t :> File(32, 9, TRUE))

\* the larger tree
Tree == DOMAIN FsNode

\* the tree most behaviours start from
Universe == Tree \ {p_d_s_f, p_d2_f, p_d2_gF, p_ld_t}

\* the order in which scandir reports the entries of a directory
ScandirOrder ==
    <<p_d_f, p_d_l, p_d_s, p_d_s_g, p_d_s_u, p_d_s_f, p_d, p_d2, p_d2_h, p_d2_k,
      p_d2_f, p_d2_gF, p_ld, p_ld_t, p_x>>

(***************************************************************************)
(* os.scandir / os.stat / os.path.islink on the live filesystem.           *)
(***************************************************************************)
exists(fsys, p) == p \in fsys

\* os.path.islink(p)
islink(fsys, p) == exists(fsys, p) /\ FsNode[p].kind = "symlink"

\* DirEntry.is_dir(): follows symlinks
entry_is_dir(fsys, p) ==
    /\ exists(fsys, p)
    /\ \/ FsNode[p].kind = "dir"
       \/ FsNode[p].kind = "symlink" /\ FsNode[p].target = "dir"

\* os.path.isdir(p): follows symlinks
isdir(fsys, p) == entry_is_dir(fsys, p)

\* os.scandir(top) succeeds
can_scandir(fsys, top) == entry_is_dir(fsys, top) /\ FsNode[top].ok

\* the names os.scandir(top) reports, in its order
listdir(fsys, top) ==
    LET here == SelectSeq(ScandirOrder, LAMBDA p : exists(fsys, p) /\ dirname(p) = top)
    IN [i \in 1..Len(here) |-> basename(here[i])]

\* the mark a filesystem carries when the permissions that make os.stat(p)
\* fail have been lifted
Granted(p) == <<"+">> \o p

\* os.stat(p) succeeds
can_stat(fsys, p) == exists(fsys, p) /\ (FsNode[p].ok \/ Granted(p) \in fsys)

(***************************************************************************)
(* os.walk(top), top-down, followlinks=False, onerror=None: the sequence   *)
(* of (dirpath, dirnames, filenames) it yields.                            *)
(***************************************************************************)
RECURSIVE walk(_, _)
RECURSIVE walk_dirs(_, _, _)
walk(fsys, top) ==
    IF ~can_scandir(fsys, top) THEN <<>>
    ELSE LET names == listdir(fsys, top)
             dirs == SelectSeq(names, LAMBDA n : entry_is_dir(fsys, join(top, n)))
             nondirs == SelectSeq(names, LAMBDA n : ~entry_is_dir(fsys, join(top, n)))
         IN << <<top, dirs, nondirs>> >> \o walk_dirs(fsys, top, dirs)

walk_dirs(fsys, top, dirs) ==
    IF dirs = <<>> THEN <<>>
    ELSE LET new_path == join(top, Head(dirs))
         IN (IF ~islink(fsys, new_path) THEN walk(fsys, new_path) ELSE <<>>)
            \o walk_dirs(fsys, top, Tail(dirs))

(***************************************************************************)
(* is_hidden (lib/utils.py), on POSIX.                                     *)
(***************************************************************************)
is_hidden(path) == startswith(basename(path), <<".">>)

(***************************************************************************)
(* DirectoryCache.scan_directory_tree: the scanner loop.                   *)
(***************************************************************************)
\* faulty variant of file_stat: os.stat is called on symlinks too
file_stat_follows(fsys, file_path) ==
    IF can_stat(fsys, file_path)
    THEN <<FsNode[file_path].size, FsNode[file_path].mtime>>
    ELSE <<0, 0>>

\* lines 44-54: the size and mtime recorded for one file
file_stat(fsys, file_path) ==
    IF ~islink(fsys, file_path) /\ can_stat(fsys, file_path)
    THEN <<FsNode[file_path].size, FsNode[file_path].mtime>>
    ELSE <<0, 0>>

\* faulty variant of scan_files: a file whose os.stat fails ends the loop
RECURSIVE scan_files_aborts(_, _, _, _)
scan_files_aborts(fsys, dirpath, filenames, st) ==
    IF filenames = <<>> THEN st
    ELSE LET filename == Head(filenames)
             file_path == join(dirpath, filename)
             stat == file_stat(fsys, file_path)
         IN IF ~islink(fsys, file_path) /\ ~can_stat(fsys, file_path) THEN st
            ELSE scan_files_aborts(fsys, dirpath, Tail(filenames),
                    [sizes |-> put(st.sizes, file_path, stat[1]),
                     mtimes |-> put(st.mtimes, file_path, stat[2]),
                     contents |-> Append(st.contents, <<filename, file_path, FALSE>>)])

\* lines 42-55: the loop over filenames of one directory; st = [sizes, mtimes, contents]
RECURSIVE scan_files(_, _, _, _)
scan_files(fsys, dirpath, filenames, st) ==
    IF filenames = <<>> THEN st
    ELSE LET filename == Head(filenames)
             file_path == join(dirpath, filename)
             stat == file_stat(fsys, file_path)
         IN scan_files(fsys, dirpath, Tail(filenames),
                [sizes |-> put(st.sizes, file_path, stat[1]),
                 mtimes |-> put(st.mtimes, file_path, stat[2]),
                 contents |-> Append(st.contents, <<filename, file_path, FALSE>>)])

\* lines 57-59: the loop over dirnames of one directory
scan_dirnames(dirpath, dirnames) ==
    [i \in 1..Len(dirnames) |-> <<dirnames[i], join(dirpath, dirnames[i]), TRUE>>]

\* lines 36-59: the loop over os.walk; st = [sizes, mtimes, dir_contents, order]
\* (order is the insertion order of dir_contents' keys)
RECURSIVE scan_walk(_, _, _)
scan_walk(fsys, walked, st) ==
    IF walked = <<>> THEN st
    ELSE LET dirpath == Head(walked)[1]
             dirnames == Head(walked)[2]
             filenames == Head(walked)[3]
             f == scan_files(fsys, dirpath, filenames,
                     [sizes |-> st.sizes, mtimes |-> st.mtimes, contents |-> <<>>])
         IN scan_walk(fsys, Tail(walked),
                [sizes |-> f.sizes,
                 mtimes |-> f.mtimes,
                 dir_contents |-> put(st.dir_contents, dirpath,
                                      f.contents \o scan_dirnames(dirpath, dirnames)),
                 order |-> Append(st.order, dirpath)])

(***************************************************************************)
(* DirectoryCache.scan_directory_tree: the bottom-up aggregation.          *)
(***************************************************************************)
\* line 64: sorted(keys, key=lambda x: x.count(os.sep), reverse=True); the
\* sort is stable, so keys of equal depth keep their insertion order
RECURSIVE sorted_from_depth(_, _)
sorted_from_depth(keys, k) ==
    IF k < 0 THEN <<>>
    ELSE SelectSeq(keys, LAMBDA x : count(x, sep) = k) \o sorted_from_depth(keys, k - 1)

sorted_dirs(keys) ==
    IF keys = <<>> THEN <<>>
    ELSE sorted_from_depth(keys, SetMax({count(keys[i], sep) : i \in 1..Len(keys)}))

\* lines 71-85: the loop over one directory's raw children; acc = [items, dir_size, dir_mtime]
RECURSIVE aggregate_items(_, _, _, _)
aggregate_items(contents, sizes, mtimes, acc) ==
    IF contents = <<>> THEN acc
    ELSE LET name == Head(contents)[1]
             item_path == Head(contents)[2]
             is_dir == Head(contents)[3]
             size == get(sizes, item_path, 0)
             mtime == get(mtimes, item_path, 0)
             is_hidden_item == is_hidden(item_path)
         IN aggregate_items(Tail(contents), sizes, mtimes,
                [items |-> Append(acc.items, <<name, size, is_dir, is_hidden_item, mtime>>),
                 dir_size |-> acc.dir_size + size,
                 dir_mtime |-> Max(acc.dir_mtime, mtime)])

\* lines 66-89: the loop over sorted_dirs; st = [sizes, mtimes, cache]
RECURSIVE aggregate(_, _, _)
aggregate(dirs, dir_contents, st) ==
    IF dirs = <<>> THEN st
    ELSE LET dirpath == Head(dirs)
             a == aggregate_items(dir_contents[dirpath], st.sizes, st.mtimes,
                     [items |-> <<>>, dir_size |-> 0, dir_mtime |-> 0])
         IN aggregate(Tail(dirs), dir_contents,
                [sizes |-> put(st.sizes, dirpath, a.dir_size),
                 mtimes |-> put(st.mtimes, dirpath, a.dir_mtime),
                 cache |-> put(st.cache, dirpath, a.items)])

\* faulty variant of scan_reset: the maps are not cleared before the walk
scan_reset_keeps(self, root_path) ==
    [self EXCEPT !.scan_root = abspath(root_path)]

\* faulty variant of scan_reset: a scan also puts the view back to its defaults
scan_reset_defaults(self, root_path) ==
    [self EXCEPT !.cache = <<>>, !.sizes = <<>>, !.mtimes = <<>>,
                 !.scan_root = abspath(root_path),
                 !.show_hidden = TRUE, !.sort_mode = "size", !.filter_text = None]

\* lines 26-29: what the scan clears and sets before it walks
scan_reset(self, root_path) ==
    [self EXCEPT !.cache = <<>>, !.sizes = <<>>, !.mtimes = <<>>,
                 !.scan_root = abspath(root_path)]

\* lines 24-89: the object after scan_directory_tree(root_path)
scan_directory_tree(self, fsys, root_path) ==
    LET s0 == scan_reset(self, root_path)
        w == scan_walk(fsys, walk(fsys, s0.scan_root),
                 [sizes |-> s0.sizes, mtimes |-> s0.mtimes,
                  dir_contents |-> <<>>, order |-> <<>>])
        a == aggregate(sorted_dirs(w.order), w.dir_contents,
                 [sizes |-> w.sizes, mtimes |-> w.mtimes, cache |-> s0.cache])
    IN [s0 EXCEPT !.cache = a.cache, !.sizes = a.sizes, !.mtimes = a.mtimes]

(***************************************************************************)
(* str.lower and string comparison, for the characters names are made of.  *)
(***************************************************************************)
Upper == <<"D", "F", "G", "H", "K", "L", "S", "U", "X">>
Lower == <<"d", "f", "g", "h", "k", "l", "s", "u", "x">>
Chars == <<".", "/", "2", "D", "F", "G", "H", "K", "L", "S", "U", "X",
           "d", "f", "g", "h", "k", "l", "n", "s", "u", "x">>

\* ord(ch), up to the order it induces
ord(ch) == CHOOSE i \in 1..Len(Chars) : Chars[i] = ch

lower_char(ch) ==
    IF \E i \in 1..Len(Upper) : Upper[i] = ch
    THEN Lower[CHOOSE i \in 1..Len(Upper) : Upper[i] = ch]
    ELSE ch

lower(s) == [i \in 1..Len(s) |-> lower_char(s[i])]

\* a < b on strings
RECURSIVE str_lt(_, _)
str_lt(a, b) ==
    IF b = <<>> THEN FALSE
    ELSE IF a = <<>> THEN TRUE
    ELSE IF Head(a) # Head(b) THEN ord(Head(a)) < ord(Head(b))
    ELSE str_lt(Tail(a), Tail(b))

\* needle in haystack
contains(haystack, needle) ==
    \E i \in 1..(Len(haystack) - Len(needle) + 1) :
        SubSeq(haystack, i, i + Len(needle) - 1) = needle

\* faulty variant of before: reverse=True is missing
before_ascending(mode, a, b) ==
    CASE mode = "size" -> a[2] < b[2]
      [] mode = "name" -> str_lt(lower(a[1]), lower(b[1]))
      [] mode = "date" -> a[5] < b[5]
      [] OTHER -> FALSE

\* lines 108-113: the sort keys; before(mode, a, b) iff a sorts strictly before b
before(mode, a, b) ==
    CASE mode = "size" -> a[2] > b[2]
      [] mode = "name" -> str_lt(lower(a[1]), lower(b[1]))
      [] mode = "date" -> a[5] > b[5]
      [] OTHER -> FALSE

\* faulty variant of insert_sorted: the item overwrites the one it precedes
RECURSIVE insert_sorted_replaces(_, _, _)
insert_sorted_replaces(sorted, x, mode) ==
    IF sorted = <<>> THEN <<x>>
    ELSE IF before(mode, x, Head(sorted)) THEN <<x>> \o Tail(sorted)
    ELSE <<Head(sorted)>> \o insert_sorted_replaces(Tail(sorted), x, mode)

\* list.sort is stable: an item goes before the first one it strictly precedes
RECURSIVE insert_sorted(_, _, _)
insert_sorted(sorted, x, mode) ==
    IF sorted = <<>> THEN <<x>>
    ELSE IF before(mode, x, Head(sorted)) THEN <<x>> \o sorted
    ELSE <<Head(sorted)>> \o insert_sorted(Tail(sorted), x, mode)

RECURSIVE sort_from(_, _, _)
sort_from(items, sorted, mode) ==
    IF items = <<>> THEN sorted
    ELSE sort_from(Tail(items), insert_sorted(sorted, Head(items), mode), mode)

sort(items, mode) == sort_from(items, <<>>, mode)

(***************************************************************************)
(* DirectoryCache: the read operations.                                    *)
(***************************************************************************)
\* if self.filter_text: (None and "" are both false)
truthy(text) == text # None /\ text # <<>>

_apply_filters_and_sort(self, items) ==
    LET r1 == IF ~self.show_hidden
              THEN SelectSeq(items, LAMBDA item : ~item[4])
              ELSE items
        r2 == IF truthy(self.filter_text)
              THEN SelectSeq(r1, LAMBDA item :
                       contains(lower(item[1]), lower(self.filter_text)))
              ELSE r1
    IN sort(r2, self.sort_mode)

\* faulty variant of stored_after_view: "result = items" for "result =
\* list(items)"; when neither filter rebinds result, the sort then works on
\* the stored list
stored_after_view_aliased(self, items) ==
    IF self.show_hidden /\ ~truthy(self.filter_text)
    THEN sort(items, self.sort_mode)
    ELSE items

\* line 96, result = list(items): the list passed in, after
\* _apply_filters_and_sort has filtered and sorted its copy
stored_after_view(self, items) == items

\* the object after _apply_filters_and_sort(self.cache.get(key)) when the key
\* is cached (lines 92 and 119-123)
after_view(self, key) ==
    IF key \in DOMAIN self.cache
    THEN [self EXCEPT !.cache[key] = stored_after_view(self, @)]
    ELSE self

\* what an operation returns: Python's None, a list, or a bool
NotCached == [is_none |-> TRUE, items |-> <<>>, flag |-> FALSE]
Listed(items) == [is_none |-> FALSE, items |-> items, flag |-> FALSE]
Bool(b) == [is_none |-> FALSE, items |-> <<>>, flag |-> b]

\* faulty variant of get_directory: "if not raw_items" for "if raw_items is None"
get_directory_falsy(self, dir_path) ==
    LET abs_path == abspath(dir_path)
    IN IF abs_path \notin DOMAIN self.cache \/ self.cache[abs_path] = <<>>
       THEN NotCached
       ELSE Listed(_apply_filters_and_sort(self, self.cache[abs_path]))

get_directory(self, dir_path) ==
    LET abs_path == abspath(dir_path)
    IN IF abs_path \notin DOMAIN self.cache
       THEN NotCached
       ELSE Listed(_apply_filters_and_sort(self, self.cache[abs_path]))

\* faulty variant of is_in_scope: the prefix test without the separator
is_in_scope_no_sep(self, dir_path) ==
    IF self.scan_root = None THEN FALSE
    ELSE startswith(abspath(dir_path), self.scan_root)

is_in_scope(self, dir_path) ==
    IF self.scan_root = None THEN FALSE
    ELSE LET abs_path == abspath(dir_path)
         IN \/ abs_path = self.scan_root
            \/ startswith(abs_path, self.scan_root \o <<sep>>)

\* line 92: what scan_directory_tree returns
scan_result(self) ==
    _apply_filters_and_sort(self, get(self.cache, self.scan_root, <<>>))

(***************************************************************************)
(* DirectoryCache: the mutators.                                           *)
(***************************************************************************)
invalidate(self) ==
    [self EXCEPT !.cache = <<>>, !.sizes = <<>>, !.mtimes = <<>>, !.scan_root = None]

\* faulty variant of remove_own: the path's size entry is left behind
remove_own_keeps_size(self, abs_path) ==
    [self EXCEPT
        !.mtimes = IF abs_path \in DOMAIN @ THEN del(@, abs_path) ELSE @,
        !.cache = IF abs_path \in DOMAIN @ THEN del(@, abs_path) ELSE @]

\* faulty variant of remove_own: the path's mtime entry is left behind
remove_own_keeps_mtime(self, abs_path) ==
    [self EXCEPT
        !.sizes = IF abs_path \in DOMAIN @ THEN del(@, abs_path) ELSE @,
        !.cache = IF abs_path \in DOMAIN @ THEN del(@, abs_path) ELSE @]

\* lines 146-151: the path's own entries
remove_own(self, abs_path) ==
    [self EXCEPT
        !.sizes = IF abs_path \in DOMAIN @ THEN del(@, abs_path) ELSE @,
        !.mtimes = IF abs_path \in DOMAIN @ THEN del(@, abs_path) ELSE @,
        !.cache = IF abs_path \in DOMAIN @ THEN del(@, abs_path) ELSE @]

\* faulty variant of remove_from_parent: the parent's mtime is recomputed from
\* the entries that remain
remove_from_parent_recomputes(self, parent_dir, item_name) ==
    IF parent_dir \in DOMAIN self.cache
    THEN LET rest == SelectSeq(self.cache[parent_dir], LAMBDA item : item[1] # item_name)
         IN [self EXCEPT !.cache[parent_dir] = rest,
                         !.mtimes = put(@, parent_dir,
                                        SetMax({rest[i][5] : i \in 1..Len(rest)} \cup {0}))]
    ELSE self

\* lines 153-157: the parent's child list
remove_from_parent(self, parent_dir, item_name) ==
    IF parent_dir \in DOMAIN self.cache
    THEN [self EXCEPT !.cache[parent_dir] =
             SelectSeq(@, LAMBDA item : item[1] # item_name)]
    ELSE self

\* lines 160-165: the walk up the ancestors
RECURSIVE remove_walk(_, _, _)
remove_walk(self, current, item_size) ==
    IF current # <<>> /\ is_in_scope(self, current)
    THEN LET s1 == IF current \in DOMAIN self.sizes
                   THEN [self EXCEPT !.sizes[current] = @ - item_size]
                   ELSE self
             next == dirname(current)
         IN IF next = dirname(next) THEN s1
            ELSE remove_walk(s1, next, item_size)
    ELSE self

remove_item(self, item_path) ==
    LET abs_path == abspath(item_path)
        item_size == get(self.sizes, abs_path, 0)
        parent_dir == dirname(abs_path)
        item_name == basename(abs_path)
    IN remove_walk(remove_from_parent(remove_own(self, abs_path), parent_dir, item_name),
                   parent_dir, item_size)

\* faulty variant of set_filter: a new filter drops the scan
set_filter_invalidates(self, text) == [invalidate(self) EXCEPT !.filter_text = text]

set_filter(self, text) == [self EXCEPT !.filter_text = text]

toggle_hidden(self) == [self EXCEPT !.show_hidden = ~@]

modes == <<"size", "name", "date">>

\* faulty variant of cycle_sort: the index is not taken modulo len(modes)
cycle_sort_no_wrap(self) ==
    LET current_idx == CHOOSE i \in 1..Len(modes) : modes[i] = self.sort_mode
    IN [self EXCEPT !.sort_mode =
           modes[IF current_idx = Len(modes) THEN current_idx ELSE current_idx + 1]]

cycle_sort(self) ==
    LET current_idx == CHOOSE i \in 1..Len(modes) : modes[i] = self.sort_mode
    IN [self EXCEPT !.sort_mode = modes[(current_idx % Len(modes)) + 1]]

(***************************************************************************)
(* DirectoryCache: the queries over the whole cached tree.                 *)
(***************************************************************************)
\* os.path.isfile(p): follows symlinks
isfile(fsys, p) ==
    /\ exists(fsys, p)
    /\ \/ FsNode[p].kind = "file"
       \/ FsNode[p].kind = "symlink" /\ FsNode[p].target = "file"

\* open(path, 'rb') succeeds
can_open(fsys, p) == isfile(fsys, p) /\ FsNode[p].ok

\* hashlib.md5(f.read(65536)).hexdigest(), up to equality: /d/f, /d/s/f and
\* /d2/f hold the same bytes, every other file differs from all others in
\* its first 64 KiB
md5_head(p) == IF p \in {p_d_f, p_d_s_f, p_d2_f} THEN p_d_f ELSE p

RECURSIVE walked_files(_)
walked_files(walked) ==
    IF walked = <<>> THEN <<>>
    ELSE [i \in 1..Len(Head(walked)[3]) |-> join(Head(walked)[1], Head(walked)[3][i])]
         \o walked_files(Tail(walked))

\* a dict keeps its keys in insertion order: the files as the walk meets
\* them (lines 47-48), then the directories as they are aggregated (line
\* 87); a scan of part of the tree and a removal keep that relative order
InsertionOrder ==
    LET walked == walk(Tree, p_root)
    IN walked_files(walked) \o sorted_dirs([i \in 1..Len(walked) |-> walked[i][1]])

\* d.items(), the keys of it
dict_items(d) == SelectSeq(InsertionOrder, LAMBDA k : k \in DOMAIN d)

\* s.find(sub), 1-based, 0 when absent
find(s, sub) ==
    LET at == {i \in 1..(Len(s) - Len(sub) + 1) : SubSeq(s, i, i + Len(sub) - 1) = sub}
    IN IF at = {} THEN 0 ELSE CHOOSE i \in at : \A j \in at : i <= j

\* s.replace(old, new, 1)
replace1(s, old, new) ==
    LET i == find(s, old)
    IN IF i = 0 THEN s
       ELSE SubSeq(s, 1, i - 1) \o new \o SubSeq(s, i + Len(old), Len(s))

\* os.path.splitext(p)[1]
splitext_ext(p) ==
    LET seps == {i \in 1..Len(p) : p[i] = sep}
        dots == {i \in 1..Len(p) : p[i] = "."}
        sepIndex == IF seps = {} THEN 0 ELSE SetMax(seps)
        dotIndex == IF dots = {} THEN 0 ELSE SetMax(dots)
    IN IF dotIndex > sepIndex /\ \E k \in (sepIndex + 1)..(dotIndex - 1) : p[k] # "."
       THEN SubSeq(p, dotIndex, Len(p))
       ELSE <<>>

\* list.sort(key=lambda x: x[k], reverse=True), stable
RECURSIVE insert_desc(_, _, _)
insert_desc(sorted, x, k) ==
    IF sorted = <<>> THEN <<x>>
    ELSE IF x[k] > Head(sorted)[k] THEN <<x>> \o sorted
    ELSE <<Head(sorted)>> \o insert_desc(Tail(sorted), x, k)

RECURSIVE sort_desc_from(_, _, _)
sort_desc_from(items, sorted, k) ==
    IF items = <<>> THEN sorted
    ELSE sort_desc_from(Tail(items), insert_desc(sorted, Head(items), k), k)

sort_desc(items, k) == sort_desc_from(items, <<>>, k)

\* results[:n]
take(items, n) == SubSeq(items, 1, IF n < Len(items) THEN n ELSE Len(items))

\* target = dir_path or self.scan_root
target_of(self, dir_path) == IF truthy(dir_path) THEN dir_path ELSE self.scan_root

SearchLimit == 100
ExtLimit == 15

\* rows are (path, name, size, is_dir, is_hid, mtime, rel_path)
search_files(self, fsys, search_text, dir_path) ==
    LET target == target_of(self, dir_path)
    IN IF ~truthy(target) \/ ~truthy(search_text) THEN <<>>
       ELSE LET search_lower == lower(search_text)
                hits == SelectSeq(dict_items(self.sizes), LAMBDA path :
                            /\ startswith(path, target)
                            /\ contains(lower(basename(path)), search_lower))
                results == [i \in 1..Len(hits) |->
                              <<hits[i], basename(hits[i]), self.sizes[hits[i]],
                                isdir(fsys, hits[i]), is_hidden(hits[i]),
                                get(self.mtimes, hits[i], 0),
                                replace1(dirname(hits[i]), target, <<".">>)>>]
            IN take(sort_desc(results, 3), SearchLimit)

\* rows are (path, name, size, is_hid, mtime, rel_path)
get_largest_files(self, fsys, dir_path, limit) ==
    LET target == target_of(self, dir_path)
    IN IF ~truthy(target) THEN <<>>
       ELSE LET hits == SelectSeq(dict_items(self.sizes), LAMBDA path :
                            startswith(path, target) /\ ~isdir(fsys, path))
                results == [i \in 1..Len(hits) |->
                              <<hits[i], basename(hits[i]), self.sizes[hits[i]],
                                is_hidden(hits[i]), get(self.mtimes, hits[i], 0),
                                replace1(dirname(hits[i]), target, <<".">>)>>]
            IN take(sort_desc(results, 3), limit)

\* d[key] = d.get(key, 0) + n on a dict kept as its (key, value) pairs in
\* insertion order
RECURSIVE add_to(_, _, _)
add_to(pairs, key, n) ==
    IF pairs = <<>> THEN << <<key, n>> >>
    ELSE IF Head(pairs)[1] = key THEN << <<key, Head(pairs)[2] + n>> >> \o Tail(pairs)
    ELSE <<Head(pairs)>> \o add_to(Tail(pairs), key, n)

\* lines 190-193: the loop over self.sizes.items()
RECURSIVE ext_sizes_of(_, _, _)
ext_sizes_of(self, paths, ext_sizes) ==
    IF paths = <<>> THEN ext_sizes
    ELSE LET e == lower(splitext_ext(Head(paths)))
             ext == IF e # <<>> THEN e ELSE <<"no extension">>
         IN ext_sizes_of(self, Tail(paths),
                add_to(ext_sizes, ext, self.sizes[Head(paths)]))

\* the returned dict, as its (extension, size) pairs in order
get_extension_stats(self, fsys, dir_path) ==
    LET target == target_of(self, dir_path)
    IN IF ~truthy(target) THEN <<>>
       ELSE LET paths == SelectSeq(dict_items(self.sizes), LAMBDA path :
                             startswith(path, target) /\ isfile(fsys, path))
            IN take(sort_desc(ext_sizes_of(self, paths, <<>>), 2), ExtLimit)

\* d.setdefault(key, []).append(v) on a dict kept as its (key, list) pairs
RECURSIVE append_to(_, _, _)
append_to(pairs, key, v) ==
    IF pairs = <<>> THEN << <<key, <<v>> >> >>
    ELSE IF Head(pairs)[1] = key
    THEN << <<key, Append(Head(pairs)[2], v)>> >> \o Tail(pairs)
    ELSE <<Head(pairs)>> \o append_to(Tail(pairs), key, v)

\* lines 222-226: the groups of paths by size
RECURSIVE size_groups_of(_, _, _)
size_groups_of(self, paths, size_groups) ==
    IF paths = <<>> THEN size_groups
    ELSE size_groups_of(self, Tail(paths),
             append_to(size_groups, self.sizes[Head(paths)], Head(paths)))

\* lines 234-243: the groups of one size group by hash; a file that cannot
\* be opened is skipped
RECURSIVE hashes_of(_, _, _)
hashes_of(fsys, paths, hashes) ==
    IF paths = <<>> THEN hashes
    ELSE hashes_of(fsys, Tail(paths),
             IF can_open(fsys, Head(paths))
             THEN append_to(hashes, md5_head(Head(paths)), Head(paths))
             ELSE hashes)

\* lines 232-250: the loop over potential_dups
RECURSIVE duplicates_of(_, _)
duplicates_of(fsys, potential_dups) ==
    IF potential_dups = <<>> THEN <<>>
    ELSE LET size == Head(potential_dups)[1]
             hashes == hashes_of(fsys, Head(potential_dups)[2], <<>>)
             dups == SelectSeq(hashes, LAMBDA h : Len(h[2]) > 1)
         IN [i \in 1..Len(dups) |-> [size |-> size, files |-> dups[i][2]]]
            \o duplicates_of(fsys, Tail(potential_dups))

find_duplicates(self, fsys, dir_path) ==
    LET target == target_of(self, dir_path)
    IN IF ~truthy(target) THEN <<>>
       ELSE LET paths == SelectSeq(dict_items(self.sizes), LAMBDA path :
                             /\ startswith(path, target)
                             /\ isfile(fsys, path)
                             /\ self.sizes[path] > 0)
                size_groups == size_groups_of(self, paths, <<>>)
            IN duplicates_of(fsys, SelectSeq(size_groups, LAMBDA g : Len(g[2]) > 1))

(***************************************************************************)
(* The state machine.                                                      *)
(***************************************************************************)
p_d_slash == <<"/", "d", "/">>

\* the arguments the operations are called with
ScanRoots == {p_root, p_d, p_d_s, p_d2, p_x, p_nx}
RemovePaths == {p_root, p_d, p_d_f, p_d_s, p_d_s_g, p_d2, p_d2_k, p_ld, p_nx}
QueryPaths == {p_d, p_d2, p_nx}
ScopePaths == {p_d, p_d2}
DeletablePaths == {p_d_f, p_d_s, p_d2}
\* every path a claim quantifies over
AllPaths == Universe \cup {p_nx, p_d_slash}

Op(name, path) == [op |-> name, path |-> path]

\* an operation with a second argument
OpArg(name, path, arg) == [op |-> name, path |-> path, arg |-> arg]

(***************************************************************************)
(* The spinner (lib/utils.py).  A whole operation starts and stops its     *)
(* spinner itself; the specifications of whole operations leave the        *)
(* spinner at rest, and SpecSpinner runs a scan step by step next to the   *)
(* spinner threads.                                                        *)
(***************************************************************************)
\* lines 31-34: the globals when the module is loaded; threads are the
\* spinner threads that have not returned, each with what it has shown last
SpinnerGlobals ==
    [spinner_running |-> FALSE, spinner_current_folder |-> <<>>,
     spinner_folder_count |-> 0, threads |-> <<>>]

\* no call of scan_directory_tree is in progress
NoScan == [pc |-> "idle", root_path |-> None, rest |-> <<>>,
           dir_contents |-> <<>>, order |-> <<>>]

\* lines 86-87: the line is blank when a thread starts
Blank == << <<>>, 0 >>

update_spinner_folder(g, folder_path) ==
    [g EXCEPT !.spinner_current_folder = folder_path,
              !.spinner_folder_count = @ + 1]

start_spinner(g) ==
    [g EXCEPT !.spinner_running = TRUE,
              !.spinner_current_folder = <<>>,
              !.spinner_folder_count = 0,
              !.threads = Append(@, [shown |-> Blank])]

\* stop_spinner, lines 73-75: the flag is cleared before the join
stop_spinner_flag(g) == [g EXCEPT !.spinner_running = FALSE]

\* stop_spinner, line 78: the count is reset after the join
stop_spinner_count(g) == [g EXCEPT !.spinner_folder_count = 0]

\* lines 102-107: the folder name a thread shows
folder_name(folder) ==
    IF ~truthy(folder) THEN <<>>
    ELSE IF truthy(basename(folder)) THEN basename(folder) ELSE folder

\* faulty variant of _show_spinner: the thread takes the folders it has
\* shown off the shared count
_show_spinner_resets(g, i) ==
    IF g.spinner_running
    THEN [g EXCEPT !.threads[i].shown =
                       <<folder_name(g.spinner_current_folder), g.spinner_folder_count>>,
                   !.spinner_folder_count = 0]
    ELSE [g EXCEPT !.threads = SubSeq(@, 1, i - 1) \o SubSeq(@, i + 1, Len(@))]

\* lines 91-137: one turn of the loop of thread i, or its return
_show_spinner(g, i) ==
    IF g.spinner_running
    THEN [g EXCEPT !.threads[i].shown =
                       <<folder_name(g.spinner_current_folder), g.spinner_folder_count>>]
    ELSE [g EXCEPT !.threads = SubSeq(@, 1, i - 1) \o SubSeq(@, i + 1, Len(@))]

\* DirectoryCache.__init__
\* DiskMan.py lines 225-231: the locals of main() when the loop is entered
Locals(current_dir) ==
    [pc |-> "list", current_dir |-> current_dir, force_rescan |-> FALSE,
     items |-> <<>>]

Init ==
    /\ fs = Universe
    /\ directory_cache = [scan_root |-> None, cache |-> <<>>, sizes |-> <<>>,
                          mtimes |-> <<>>, show_hidden |-> TRUE,
                          sort_mode |-> "size", filter_text |-> None]
    /\ removes = 0
    /\ cycles = 0
    /\ lastOp = Op("init", None)
    /\ ret = NotCached
    /\ spinner = SpinnerGlobals
    /\ scanning = NoScan
    /\ main = Locals(p_d)

ScanDirectoryTree(root_path) ==
    /\ \E scanned \in {scan_directory_tree(directory_cache, fs, root_path)} :
          directory_cache' = after_view(scanned, scanned.scan_root)
    /\ ret' = Listed(scan_result(directory_cache'))
    /\ removes' = 0
    /\ lastOp' = Op("scan", root_path)
    /\ UNCHANGED <<fs, cycles, spinner, scanning, main>>

RemoveItem(item_path) ==
    /\ removes < MaxRemoves
    /\ directory_cache' = remove_item(directory_cache, item_path)
    /\ ret' = NotCached
    /\ removes' = removes + 1
    /\ lastOp' = Op("remove", item_path)
    /\ UNCHANGED <<fs, cycles, spinner, scanning, main>>

Invalidate ==
    /\ directory_cache' = invalidate(directory_cache)
    /\ ret' = NotCached
    /\ removes' = 0
    /\ lastOp' = Op("invalidate", None)
    /\ UNCHANGED <<fs, cycles, spinner, scanning, main>>

GetDirectory(dir_path) ==
    /\ ret' = get_directory(directory_cache, dir_path)
    /\ directory_cache' = after_view(directory_cache, abspath(dir_path))
    /\ lastOp' = Op("get_directory", dir_path)
    /\ UNCHANGED <<fs, removes, cycles, spinner, scanning, main>>

IsInScope(dir_path) ==
    /\ ret' = Bool(is_in_scope(directory_cache, dir_path))
    /\ lastOp' = Op("is_in_scope", dir_path)
    /\ UNCHANGED <<fs, directory_cache, removes, cycles, spinner, scanning, main>>

\* the filesystem loses p and everything under it (a delete or a move away,
\* by this program or by any other)
Deleted(fsys) == {p \in Universe \ fsys : dirname(p) \in fsys}

FsDelete(p) ==
    /\ p \in fs
    /\ Cardinality(Deleted(fs)) < MaxDeletes
    /\ fs' = {q \in fs : q # p /\ ~startswith(q, p \o <<sep>>)}
    /\ lastOp' = Op("fs_delete", p)
    /\ ret' = NotCached
    /\ UNCHANGED <<directory_cache, removes, cycles, spinner, scanning, main>>

Next ==
    \/ \E root_path \in ScanRoots : ScanDirectoryTree(root_path)
    \/ \E item_path \in RemovePaths : RemoveItem(item_path)
    \/ Invalidate
    \/ \E dir_path \in QueryPaths : GetDirectory(dir_path)
    \/ \E dir_path \in ScopePaths : IsInScope(dir_path)
    \/ \E p \in DeletablePaths : FsDelete(p)

Spec == Init /\ [][Next]_vars

(***************************************************************************)
(* The cache under its view-state mutators: scans, removals and queries    *)
(* interleaved with set_filter, toggle_hidden and cycle_sort.              *)
(***************************************************************************)
ViewRoots == {p_d, p_d2}
ViewRemovePaths == {p_d_s_g, p_d2_h, p_d2_k}
FilterTexts == {None, <<>>, <<"h">>, <<"K">>}

SetFilter(text) ==
    /\ directory_cache' = set_filter(directory_cache, text)
    /\ ret' = NotCached
    /\ lastOp' = Op("set_filter", text)
    /\ UNCHANGED <<fs, removes, cycles, spinner, scanning, main>>

ToggleHidden ==
    /\ directory_cache' = toggle_hidden(directory_cache)
    /\ ret' = Bool(directory_cache'.show_hidden)
    /\ lastOp' = Op("toggle_hidden", None)
    /\ UNCHANGED <<fs, removes, cycles, spinner, scanning, main>>

CycleSort ==
    /\ cycles < MaxCycles
    /\ directory_cache' = cycle_sort(directory_cache)
    /\ ret' = NotCached
    /\ cycles' = cycles + 1
    /\ lastOp' = Op("cycle_sort", None)
    /\ UNCHANGED <<fs, removes, spinner, scanning, main>>

NextView ==
    \/ \E root_path \in ViewRoots : ScanDirectoryTree(root_path)
    \/ \E item_path \in ViewRemovePaths : RemoveItem(item_path)
    \/ \E text \in FilterTexts : SetFilter(text)
    \/ ToggleHidden
    \/ CycleSort
    \/ Invalidate
    \/ \E dir_path \in QueryPaths : GetDirectory(dir_path)

SpecView == Init /\ [][NextView]_vars

(***************************************************************************)
(* The commands that delete or move items: the 'd', 'D' and 'm' commands   *)
(* of the interactive loop (DiskMan.py) and the dashboard's do_delete      *)
(* (lib/web_server.py), over delete_item and move_item                     *)
(* (lib/file_operations.py).                                               *)
(***************************************************************************)
MaxSelected == 2

\* what the OS does with one delete or move: lets it through, refuses it, or
\* fails it half-way through a directory tree
Perms == {"ok", "denied", "partial"}

\* the filesystem without p and everything under it
unlink_tree(fsys, p) == {q \in fsys : q # p /\ ~startswith(q, p \o <<sep>>)}

\* shutil.rmtree / shutil.move of a directory failing after its first entry
\* is gone
unlink_first(fsys, p) ==
    LET names == listdir(fsys, p)
    IN IF names = <<>> THEN fsys ELSE unlink_tree(fsys, join(p, Head(names)))

\* delete_item: (success, the filesystem afterwards)
delete_item(fsys, item_path, use_trash, perm) ==
    IF ~exists(fsys, item_path) \/ perm = "denied"
    THEN [success |-> FALSE, fs |-> fsys]
    ELSE IF perm = "partial" /\ ~use_trash /\ FsNode[item_path].kind = "dir"
    THEN [success |-> FALSE, fs |-> unlink_first(fsys, item_path)]
    ELSE [success |-> TRUE, fs |-> unlink_tree(fsys, item_path)]

\* move_item to a directory outside the modelled tree
move_item(fsys, source_path, perm) ==
    IF ~exists(fsys, source_path) \/ perm = "denied"
    THEN [success |-> FALSE, fs |-> fsys]
    ELSE IF perm = "partial" /\ FsNode[source_path].kind = "dir"
    THEN [success |-> FALSE, fs |-> unlink_first(fsys, source_path)]
    ELSE [success |-> TRUE, fs |-> unlink_tree(fsys, source_path)]

\* get_item_details returns a dict (None when os.stat fails)
get_item_details(fsys, item_path) ==
    /\ exists(fsys, item_path)
    /\ IF FsNode[item_path].kind = "symlink" THEN TRUE ELSE FsNode[item_path].ok

\* faulty variant of after_item: the cache is updated whatever was reported
after_item_always(self, item_path, success) == remove_item(self, item_path)

\* "if success: remove_from_cache(path)"
after_item(self, item_path, success) ==
    IF success THEN remove_item(self, item_path) ELSE self

\* the loop of the 'd' and 'D' commands over the confirmed items
RECURSIVE delete_loop(_, _, _, _, _)
delete_loop(self, fsys, paths, use_trash, perm) ==
    IF paths = <<>> THEN [self |-> self, fs |-> fsys, results |-> <<>>]
    ELSE LET r == delete_item(fsys, Head(paths), use_trash, Head(perm))
             rest == delete_loop(after_item(self, Head(paths), r.success), r.fs,
                                 Tail(paths), use_trash, Tail(perm))
         IN [rest EXCEPT !.results = << <<Head(paths), r.success>> >> \o @]

\* the loop of the 'm' command over the selected items
RECURSIVE move_loop(_, _, _, _)
move_loop(self, fsys, paths, perm) ==
    IF paths = <<>> THEN [self |-> self, fs |-> fsys, results |-> <<>>]
    ELSE LET r == move_item(fsys, Head(paths), Head(perm))
             rest == move_loop(after_item(self, Head(paths), r.success), r.fs,
                               Tail(paths), Tail(perm))
         IN [rest EXCEPT !.results = << <<Head(paths), r.success>> >> \o @]

\* do_delete: (success, the cache and the filesystem afterwards)
do_delete(self, fsys, path, perm) ==
    IF ~exists(fsys, path)
    THEN [self |-> self, fs |-> fsys, results |-> << <<path, FALSE>> >>]
    ELSE LET r == delete_item(fsys, path, TRUE, perm)
         IN [self |-> after_item(self, path, r.success), fs |-> r.fs,
             results |-> << <<path, r.success>> >>]

\* parse_selection: the sorted indices picked out of n listed items
Selections(n) ==
    {<<i>> : i \in 1..n}
    \cup {<<i, j>> : <<i, j>> \in {ij \in (1..n) \X (1..n) :
                                      ij[1] < ij[2] /\ MaxSelected >= 2}}
    \cup {<<i, j, k>> : <<i, j, k>> \in {ijk \in (1..n) \X (1..n) \X (1..n) :
                                      ijk[1] < ijk[2] /\ ijk[2] < ijk[3]
                                      /\ MaxSelected >= 3}}

\* the paths of the selected rows of the listing of current_dir
selected_paths(items, current_dir, indices) ==
    [i \in 1..Len(indices) |-> join(current_dir, items[indices[i]][1])]

\* a half-way failure is an outcome of its own only for a directory that is
\* deleted or moved entry by entry
Distinct(fsys, paths, perm, use_trash) ==
    \A i \in 1..Len(paths) :
        perm[i] = "partial" => ~use_trash /\ isdir(fsys, paths[i])

CmdRoots == {p_d}
CmdDirs == {p_d, p_d_s}
DashPaths == {p_d_f, p_d_s, p_d_s_g, p_nx}

Done(results) == [is_none |-> FALSE, items |-> results, flag |-> FALSE]

DeleteCommand(current_dir, use_trash) ==
    \E listing \in {get_directory(directory_cache, current_dir)} :
       /\ ~listing.is_none
       /\ \E indices \in Selections(Len(listing.items)) :
          \E perm \in [1..Len(indices) -> Perms] :
          \E paths \in {selected_paths(listing.items, current_dir, indices)} :
            /\ Distinct(fs, paths, perm, use_trash)
            /\ \E out \in {delete_loop(directory_cache, fs,
                              SelectSeq(paths, LAMBDA q : get_item_details(fs, q)),
                              use_trash, perm)} :
                /\ directory_cache' = out.self
                /\ fs' = out.fs
                /\ ret' = Done(out.results)
                /\ lastOp' = Op(IF use_trash THEN "d" ELSE "D", current_dir)
                /\ UNCHANGED <<removes, cycles, spinner, scanning, main>>

MoveCommand(current_dir) ==
    \E listing \in {get_directory(directory_cache, current_dir)} :
       /\ ~listing.is_none
       /\ \E indices \in Selections(Len(listing.items)) :
          \E perm \in [1..Len(indices) -> Perms] :
          \E paths \in {selected_paths(listing.items, current_dir, indices)} :
            /\ Distinct(fs, paths, perm, FALSE)
            /\ \E out \in {move_loop(directory_cache, fs, paths, perm)} :
                /\ directory_cache' = out.self
                /\ fs' = out.fs
                /\ ret' = Done(out.results)
                /\ lastOp' = Op("m", current_dir)
                /\ UNCHANGED <<removes, cycles, spinner, scanning, main>>

DoDelete(path) ==
    \E perm \in Perms :
    \E out \in {do_delete(directory_cache, fs, path, perm)} :
        /\ directory_cache' = out.self
        /\ fs' = out.fs
        /\ ret' = Done(out.results)
        /\ lastOp' = Op("do_delete", path)
        /\ UNCHANGED <<removes, cycles, spinner, scanning, main>>

NextCmd ==
    \/ \E root_path \in CmdRoots : ScanDirectoryTree(root_path)
    \/ \E current_dir \in CmdDirs, use_trash \in BOOLEAN :
          DeleteCommand(current_dir, use_trash)
    \/ \E current_dir \in CmdDirs : MoveCommand(current_dir)
    \/ \E path \in DashPaths : DoDelete(path)
    \/ \E p \in DeletablePaths : FsDelete(p)

SpecCmd == Init /\ [][NextCmd]_vars

(***************************************************************************)
(* The cache under its read operations: listings and the queries over the  *)
(* whole cached tree, between scans, removals, deletions on the filesystem *)
(* and a change of the view.                                               *)
(***************************************************************************)
ReadRoots == {p_root, p_d}
ReadRemovePaths == {p_d_s, p_d_s_g}
ReadDirs == {None, p_d, p_d_s}
SearchTexts == {<<>>, <<"s">>, <<"K">>}
Limits == {1, 50}

SearchFiles(search_text, dir_path) ==
    /\ ret' = Listed(search_files(directory_cache, fs, search_text, dir_path))
    /\ lastOp' = OpArg("search_files", dir_path, search_text)
    /\ UNCHANGED <<fs, directory_cache, removes, cycles, spinner, scanning, main>>

GetLargestFiles(dir_path, limit) ==
    /\ ret' = Listed(get_largest_files(directory_cache, fs, dir_path, limit))
    /\ lastOp' = OpArg("get_largest_files", dir_path, limit)
    /\ UNCHANGED <<fs, directory_cache, removes, cycles, spinner, scanning, main>>

GetExtensionStats(dir_path) ==
    /\ ret' = Listed(get_extension_stats(directory_cache, fs, dir_path))
    /\ lastOp' = Op("get_extension_stats", dir_path)
    /\ UNCHANGED <<fs, directory_cache, removes, cycles, spinner, scanning, main>>

FindDuplicates(dir_path) ==
    /\ ret' = Listed(find_duplicates(directory_cache, fs, dir_path))
    /\ lastOp' = Op("find_duplicates", dir_path)
    /\ UNCHANGED <<fs, directory_cache, removes, cycles, spinner, scanning, main>>

NextRead ==
    \/ \E root_path \in ReadRoots : ScanDirectoryTree(root_path)
    \/ \E item_path \in ReadRemovePaths : RemoveItem(item_path)
    \/ \E p \in DeletablePaths : FsDelete(p)
    \/ ToggleHidden
    \/ \E dir_path \in QueryPaths : GetDirectory(dir_path)
    \/ \E dir_path \in ScopePaths : IsInScope(dir_path)
    \/ \E search_text \in SearchTexts, dir_path \in ReadDirs :
          SearchFiles(search_text, dir_path)
    \/ \E dir_path \in ReadDirs, limit \in Limits : GetLargestFiles(dir_path, limit)
    \/ \E dir_path \in ReadDirs : GetExtensionStats(dir_path)
    \/ \E dir_path \in ReadDirs : FindDuplicates(dir_path)

SpecRead == Init /\ [][NextRead]_vars

(***************************************************************************)
(* list_directory_cached (lib/file_operations.py): the listing the main    *)
(* loop asks for; is_cached is the second component of the returned pair.  *)
(***************************************************************************)
list_directory_cached(self, fsys, directory, force_rescan) ==
    LET abs_dir == abspath(directory)
        cached == get_directory(self, abs_dir)
    IN IF ~force_rescan /\ is_in_scope(self, abs_dir) /\ cached # NotCached
       THEN [self |-> after_view(self, abs_dir), items |-> cached.items,
             is_cached |-> TRUE]
       ELSE LET scanned == CHOOSE s \in {scan_directory_tree(self, fsys, abs_dir)} : TRUE
                viewed == CHOOSE v \in {after_view(scanned, scanned.scan_root)} : TRUE
            IN [self |-> viewed, items |-> scan_result(viewed), is_cached |-> FALSE]

(***************************************************************************)
(* The larger tree: the operations of the dashboard and of the main loop   *)
(* on a tree with files of equal size, files of equal content, a file      *)
(* with an extension and a file behind a symlinked directory.              *)
(***************************************************************************)
TreeRoots == {p_root, p_d}
TreeRemovePaths == {p_d_s, p_d2_f}
TreeDeletePaths == {p_d, p_d_s_f}
TreeDirs == {None, p_d}
TreeTexts == {<<"f">>, <<"K">>}

InitTree ==
    /\ fs = Tree
    /\ directory_cache = [scan_root |-> None, cache |-> <<>>, sizes |-> <<>>,
                          mtimes |-> <<>>, show_hidden |-> TRUE,
                          sort_mode |-> "size", filter_text |-> None]
    /\ removes = 0
    /\ cycles = 0
    /\ lastOp = Op("init", None)
    /\ ret = NotCached
    /\ spinner = SpinnerGlobals
    /\ scanning = NoScan
    /\ main = Locals(p_d)

\* the pair list_directory_cached returns
Pair(items, is_cached) == [pair |-> <<items, is_cached>>]

ListDirectoryCached(directory, force_rescan) ==
    \E out \in {list_directory_cached(directory_cache, fs, directory, force_rescan)} :
        /\ directory_cache' = out.self
        /\ ret' = Pair(out.items, out.is_cached)
        /\ removes' = IF out.is_cached THEN removes ELSE 0
        /\ lastOp' = OpArg("list_directory_cached", directory, force_rescan)
        /\ UNCHANGED <<fs, cycles, spinner, scanning, main>>

NextTree ==
    \/ \E root_path \in TreeRoots : ScanDirectoryTree(root_path)
    \/ \E item_path \in TreeRemovePaths : RemoveItem(item_path)
    \/ \E path \in TreeDeletePaths : DoDelete(path)
    \/ \E search_text \in TreeTexts, dir_path \in TreeDirs :
          SearchFiles(search_text, dir_path)
    \/ \E dir_path \in TreeDirs, limit \in Limits : GetLargestFiles(dir_path, limit)
    \/ \E dir_path \in TreeDirs : GetExtensionStats(dir_path)
    \/ \E dir_path \in TreeDirs : FindDuplicates(dir_path)

SpecTree == InitTree /\ [][NextTree]_vars

(***************************************************************************)
(* The listings of the main loop: list_directory_cached between scans and  *)
(* removals.                                                               *)
(***************************************************************************)
ListRoots == {p_root, p_d, p_d2}
ListDirs == {p_d, p_d_s, p_d2}
ListRemovePaths == {p_d_f, p_d_s, p_d_s_g, p_d2_h}

NextList ==
    \/ \E root_path \in ListRoots : ScanDirectoryTree(root_path)
    \/ \E item_path \in ListRemovePaths : RemoveItem(item_path)
    \/ \E directory \in ListDirs, force_rescan \in BOOLEAN :
          ListDirectoryCached(directory, force_rescan)
    \/ Invalidate

SpecList == Init /\ [][NextList]_vars

(***************************************************************************)
(* scan_directory_tree step by step, next to the spinner threads.          *)
(***************************************************************************)
SpinRoots == {p_d, p_d2, p_nx}

\* lines 26-34: the reset, start_spinner, and the walk is set up
ScanBegin(root_path) ==
    /\ scanning.pc = "idle"
    /\ Len(spinner.threads) < MaxThreads
    /\ directory_cache' = scan_reset(directory_cache, root_path)
    /\ spinner' = start_spinner(spinner)
    /\ scanning' = [pc |-> "walk", root_path |-> root_path,
                    rest |-> walk(fs, abspath(root_path)),
                    dir_contents |-> <<>>, order |-> <<>>]
    /\ UNCHANGED <<fs, removes, cycles, lastOp, ret, main>>

\* lines 36-59: one turn of the loop over os.walk
ScanDir ==
    /\ scanning.pc = "walk"
    /\ scanning.rest # <<>>
    /\ spinner' = update_spinner_folder(spinner, Head(scanning.rest)[1])
    /\ \E w \in {scan_walk(fs, <<Head(scanning.rest)>>,
                      [sizes |-> directory_cache.sizes,
                       mtimes |-> directory_cache.mtimes,
                       dir_contents |-> scanning.dir_contents,
                       order |-> scanning.order])} :
          /\ directory_cache' = [directory_cache EXCEPT !.sizes = w.sizes,
                                                        !.mtimes = w.mtimes]
          /\ scanning' = [scanning EXCEPT !.rest = Tail(@),
                                          !.dir_contents = w.dir_contents,
                                          !.order = w.order]
    /\ UNCHANGED <<fs, removes, cycles, lastOp, ret, main>>

\* lines 64-91: the aggregation, and stop_spinner up to its join
ScanAggregate ==
    /\ scanning.pc = "walk"
    /\ scanning.rest = <<>>
    /\ \E a \in {aggregate(sorted_dirs(scanning.order), scanning.dir_contents,
                      [sizes |-> directory_cache.sizes,
                       mtimes |-> directory_cache.mtimes,
                       cache |-> directory_cache.cache])} :
          directory_cache' = [directory_cache EXCEPT !.cache = a.cache,
                                                    !.sizes = a.sizes,
                                                    !.mtimes = a.mtimes]
    /\ spinner' = stop_spinner_flag(spinner)
    /\ scanning' = [scanning EXCEPT !.pc = "join"]
    /\ UNCHANGED <<fs, removes, cycles, lastOp, ret, main>>

\* lines 76-78 of lib/utils.py and line 92: the join returns, because the
\* thread has returned or because the second has passed, and the scan returns
ScanReturn ==
    /\ scanning.pc = "join"
    /\ spinner' = stop_spinner_count(spinner)
    /\ directory_cache' = after_view(directory_cache, directory_cache.scan_root)
    /\ ret' = Listed(scan_result(directory_cache'))
    /\ removes' = 0
    /\ lastOp' = Op("scan", scanning.root_path)
    /\ scanning' = NoScan
    /\ UNCHANGED <<fs, cycles, main>>

\* thread i runs one turn of its loop, or returns
ShowSpinner(i) ==
    /\ spinner' = _show_spinner(spinner, i)
    /\ UNCHANGED <<fs, directory_cache, removes, cycles, lastOp, ret, scanning, main>>

NextSpinner ==
    \/ \E root_path \in SpinRoots : ScanBegin(root_path)
    \/ ScanDir
    \/ ScanAggregate
    \/ ScanReturn
    \/ \E i \in DOMAIN spinner.threads : ShowSpinner(i)

SpecSpinner == Init /\ [][NextSpinner]_vars

(***************************************************************************)
(* Vocabulary of the properties: path structure by components, independent *)
(* of the string tests the code uses.                                      *)
(***************************************************************************)
Comps(p) == SelectSeq(split(p, sep), LAMBDA c : c # <<>>)

\* p is a descendant of d (strictly under it, at any depth)
Under(p, d) ==
    /\ Len(Comps(d)) < Len(Comps(p))
    /\ SubSeq(Comps(p), 1, Len(Comps(d))) = Comps(d)

\* p is root or a descendant of root
Within(p, root) == p = root \/ Under(p, root)

RECURSIVE SumOver(_, _)
SumOver(S, f) ==
    IF S = {} THEN 0
    ELSE LET x == CHOOSE y \in S : TRUE
         IN f[x] + SumOver(S \ {x}, f)

RECURSIVE SumSizes(_)
SumSizes(items) ==
    IF items = <<>> THEN 0 ELSE Head(items)[2] + SumSizes(Tail(items))

\* the cached files: keys of sizes that are not cached directories
CachedFiles(self) == DOMAIN self.sizes \ DOMAIN self.cache

(***************************************************************************)
(* C1.  After scan_directory_tree(root), the size of every cached          *)
(* directory is the sum of the sizes of all cached files strictly under    *)
(* it, symlinks and unreadable files counting 0.                           *)
(***************************************************************************)
C1_AggregationCorrect ==
    lastOp.op = "scan" =>
        \A D \in DOMAIN directory_cache.cache :
            directory_cache.sizes[D] =
                SumOver({f \in CachedFiles(directory_cache) : Under(f, D)},
                        directory_cache.sizes)

(***************************************************************************)
(* C2.  A step remove_item(p) on a scanned cache that holds p lowers the   *)
(* size of every cached ancestor of p within the scan root by exactly the  *)
(* size p had, drops p from sizes, mtimes and cache, and leaves no entry   *)
(* named like p in the parent's child list.                                *)
(***************************************************************************)
RemovePost(pre, post, p) ==
    /\ \A a \in DOMAIN pre.sizes :
           (Under(p, a) /\ Within(a, pre.scan_root)) =>
               /\ a \in DOMAIN post.sizes
               /\ post.sizes[a] = pre.sizes[a] - pre.sizes[p]
    /\ p \notin DOMAIN post.sizes
    /\ p \notin DOMAIN post.mtimes
    /\ p \notin DOMAIN post.cache
    /\ dirname(p) \in DOMAIN post.cache =>
           \A i \in 1..Len(post.cache[dirname(p)]) :
               post.cache[dirname(p)][i][1] # basename(p)

C2_RemoveDecrementsAncestors ==
    [][(/\ lastOp'.op = "remove"
        /\ directory_cache.scan_root # None
        /\ abspath(lastOp'.path) \in DOMAIN directory_cache.sizes)
       => RemovePost(directory_cache, directory_cache', abspath(lastOp'.path))]_vars

(***************************************************************************)
(* C3.  In every state, the size of every cached directory equals the sum  *)
(* of the size fields of the entries of its child list.                    *)
(***************************************************************************)
C3_SizeMatchesChildren ==
    \A D \in DOMAIN directory_cache.cache :
        directory_cache.sizes[D] = SumSizes(directory_cache.cache[D])

(***************************************************************************)
(* C4.  remove_item is idempotent: in every state and for every path, a    *)
(* second remove_item(p) right after the first changes nothing.            *)
(***************************************************************************)
C4_RemoveIdempotent ==
    \A p \in RemovePaths :
        LET once == remove_item(directory_cache, p)
        IN remove_item(once, p) = once

C4_Witness ==
    /\ lastOp = Op("remove", p_d_s_g)
    /\ directory_cache.scan_root = p_d
    /\ p_d_s_g \notin DOMAIN directory_cache.sizes
    /\ directory_cache.sizes[p_d] = 1
    /\ remove_item(directory_cache, p_d_s_g) = directory_cache

(***************************************************************************)
(* C5.  is_in_scope(p) is true iff a scan root is set and p is the scan    *)
(* root or starts with scan root + separator; so it is false for the       *)
(* parent of the scan root, for a path that only shares a string prefix    *)
(* with the scan root, and for every path while no scan root is set.       *)
(***************************************************************************)
\* s starts with r followed by the separator, character by character
StartsWithRootSep(s, r) ==
    /\ Len(s) > Len(r)
    /\ \A i \in 1..Len(r) : s[i] = r[i]
    /\ s[Len(r) + 1] = sep

C5_ScopeByPrefix ==
    LET root == directory_cache.scan_root
    IN \A p \in AllPaths :
        LET abs_path == abspath(p)
            in_scope == is_in_scope(directory_cache, p)
        IN /\ in_scope <=>
                  (root # None /\ (abs_path = root \/ StartsWithRootSep(abs_path, root)))
           /\ (root # None /\ dirname(root) # root /\ abs_path = dirname(root))
                  => ~in_scope
           /\ (root # None /\ abs_path # root /\ ~Under(abs_path, root))
                  => ~in_scope
           /\ root = None => ~in_scope

C5_Witness ==
    /\ directory_cache.scan_root = p_d
    /\ lastOp = Op("is_in_scope", p_d2)
    /\ ret = Bool(FALSE)
    /\ is_in_scope(directory_cache, p_d_s)
    /\ ~is_in_scope(directory_cache, p_root)

(***************************************************************************)
(* C6.  For every scan root, the filesystem root included, is_in_scope(p)  *)
(* is true iff a scan root is set and p is the scan root or a descendant   *)
(* of it; in particular every path the scan cached is in scope.            *)
(***************************************************************************)
C6_ScopeIsDescent ==
    LET root == directory_cache.scan_root
    IN /\ \A p \in AllPaths :
              is_in_scope(directory_cache, p) <=>
                  (root # None /\ Within(abspath(p), root))
       /\ \A k \in DOMAIN directory_cache.sizes : is_in_scope(directory_cache, k)

(***************************************************************************)
(* C7.  In every state, get_directory of a path that is_in_scope rejects,  *)
(* or that was never scanned, answers "not cached".                        *)
(***************************************************************************)
C7_OutOfScopeNotCached ==
    \A p \in AllPaths :
        ~is_in_scope(directory_cache, p) => get_directory(directory_cache, p) = NotCached

(***************************************************************************)
(* C8.  Under every view state, get_directory(p) answers "not cached" iff  *)
(* p is not a key of cache; for a cached directory it answers a list of    *)
(* its entries, the empty list when there are no children or all are       *)
(* filtered out.                                                           *)
(***************************************************************************)
C8_NotCachedIffAbsent ==
    \A p \in AllPaths :
        LET r == get_directory(directory_cache, p)
            abs_path == abspath(p)
        IN /\ r = NotCached <=> abs_path \notin DOMAIN directory_cache.cache
           /\ abs_path \in DOMAIN directory_cache.cache =>
                  /\ r = Listed(r.items)
                  /\ \A i \in 1..Len(r.items) :
                         \E j \in 1..Len(directory_cache.cache[abs_path]) :
                             r.items[i] = directory_cache.cache[abs_path][j]
                  /\ directory_cache.cache[abs_path] = <<>> => r = Listed(<<>>)

\* a cached directory whose children the view all filters out
C8_Witness ==
    /\ lastOp = Op("get_directory", p_d2)
    /\ p_d2 \in DOMAIN directory_cache.cache
    /\ directory_cache.cache[p_d2] # <<>>
    /\ ~directory_cache.show_hidden
    /\ directory_cache.filter_text = <<"K">>
    /\ ret = Listed(<<>>)
    /\ ret # NotCached

(***************************************************************************)
(* C9.  scan_directory_tree of a root that cannot be opened returns an     *)
(* empty list and leaves no scan root set.                                 *)
(***************************************************************************)
C9_FailedScanLeavesNoRoot ==
    (lastOp.op = "scan" /\ ~can_scandir(fs, abspath(lastOp.path))) =>
        /\ ret = Listed(<<>>)
        /\ directory_cache.scan_root = None

(***************************************************************************)
(* C10.  scan_directory_tree(r) is a full replace: right after it, the     *)
(* scan root is r and every key of sizes, mtimes and cache is r or a       *)
(* descendant of r that exists on the filesystem the scan walked; nothing  *)
(* of an earlier scan survives.                                            *)
(***************************************************************************)
C10_ScanIsFullReplace ==
    lastOp.op = "scan" =>
        LET r == abspath(lastOp.path)
            keys == DOMAIN directory_cache.sizes \cup DOMAIN directory_cache.mtimes
                    \cup DOMAIN directory_cache.cache
        IN /\ directory_cache.scan_root = r
           /\ \A k \in keys : Within(k, r) /\ exists(fs, k)
           /\ directory_cache = scan_directory_tree(invalidate(directory_cache), fs, lastOp.path)

C10_Witness ==
    /\ lastOp = Op("scan", p_d2)
    /\ p_d_s \notin fs
    /\ DOMAIN directory_cache.cache = {p_d2}
    /\ DOMAIN directory_cache.sizes = {p_d2, p_d2_h, p_d2_k}

(***************************************************************************)
(* C11: the cache is updated by remove_item(p) only after the delete or    *)
(* move of p reported success.  After a 'd', 'D' or 'm' command or a       *)
(* dashboard delete, the paths that left sizes, mtimes and cache are       *)
(* exactly the paths reported as done, every child list lost exactly the   *)
(* entries of those paths, scan_root is the same, and a command in which   *)
(* nothing succeeded (a failed delete_item or move_item, or a path the     *)
(* dashboard did not find) leaves the whole cache as it was.               *)
(***************************************************************************)
Commands == {"d", "D", "m", "do_delete"}

Succeeded(results) == {results[i][1] : i \in {j \in 1..Len(results) : results[j][2]}}

Failed(results) == {results[i][1] : i \in {j \in 1..Len(results) : ~results[j][2]}}

CommandPost(pre, post, results) ==
    LET done == Succeeded(results)
    IN /\ post.scan_root = pre.scan_root
       /\ DOMAIN post.sizes = DOMAIN pre.sizes \ done
       /\ DOMAIN post.mtimes = DOMAIN pre.mtimes \ done
       /\ DOMAIN post.cache = DOMAIN pre.cache \ done
       /\ \A D \in DOMAIN post.cache :
             post.cache[D] = SelectSeq(pre.cache[D],
                                 LAMBDA item : join(D, item[1]) \notin done)
       /\ \A q \in Failed(results) :
             /\ q \in DOMAIN pre.sizes => post.sizes[q] = pre.sizes[q]
             /\ q \in DOMAIN pre.mtimes => post.mtimes[q] = pre.mtimes[q]
       /\ done = {} => post = pre

C11_UpdateOnlyAfterSuccess ==
    [][lastOp'.op \in Commands =>
          CommandPost(directory_cache, directory_cache', ret'.items)]_vars

\* a permanent delete of two items went through for one and failed for the
\* other, which is still cached
C11_Witness ==
    /\ lastOp.op = "D"
    /\ \E done \in Succeeded(ret.items), q \in Failed(ret.items) :
          /\ done \notin DOMAIN directory_cache.sizes
          /\ q \in DOMAIN directory_cache.sizes
          /\ done \notin fs
          /\ q \in fs

(***************************************************************************)
(* C12: the aggregation takes the walked directories in non-increasing     *)
(* depth (depth = number of separators in the path), every walked          *)
(* subdirectory of a directory comes before that directory, and taking     *)
(* the directories of equal depth in any other order gives the same        *)
(* sizes, mtimes and child lists.                                          *)
(***************************************************************************)
\* what the walk of the last scan collected
Walked(fsys, root_path) ==
    scan_walk(fsys, walk(fsys, abspath(root_path)),
        [sizes |-> <<>>, mtimes |-> <<>>, dir_contents |-> <<>>, order |-> <<>>])

Aggregated(w, order) ==
    aggregate(order, w.dir_contents,
        [sizes |-> w.sizes, mtimes |-> w.mtimes, cache |-> <<>>])

NonIncreasingDepth(order) ==
    \A i, j \in 1..Len(order) :
        i < j => count(order[i], sep) >= count(order[j], sep)

\* the orders that differ from order only among directories of equal depth
EqualDepthReorderings(order) ==
    LET n == Len(order)
        perms == {f \in [1..n -> 1..n] : \A i, j \in 1..n : i # j => f[i] # f[j]}
    IN {o \in {[i \in 1..n |-> order[f[i]]] : f \in perms} : NonIncreasingDepth(o)}

C12_DeepestFirst ==
    lastOp.op = "scan" =>
        LET w == Walked(fs, lastOp.path)
            order == sorted_dirs(w.order)
        IN /\ NonIncreasingDepth(order)
           /\ \A i, j \in 1..Len(order) : Under(order[j], order[i]) => j < i
           /\ \A o \in EqualDepthReorderings(order) :
                 Aggregated(w, o) = Aggregated(w, order)

(***************************************************************************)
(* C13: right after a scan, the mtime of every cached directory is the     *)
(* greatest mtime recorded for its immediate children (a subdirectory      *)
(* counting with its own aggregated mtime), and 0 when it has none.        *)
(***************************************************************************)
ChildrenOf(self, D) == {q \in DOMAIN self.mtimes : q # D /\ dirname(q) = D}

C13_MtimeIsMaxOfChildren ==
    lastOp.op = "scan" =>
        \A D \in DOMAIN directory_cache.cache :
            directory_cache.mtimes[D] =
                SetMax({directory_cache.mtimes[q] : q \in ChildrenOf(directory_cache, D)}
                       \cup {0})

(***************************************************************************)
(* C14: remove_item(p) deletes p's own mtimes entry and nothing else of    *)
(* mtimes: every other path, p's ancestors among them, keeps its mtime,    *)
(* and every child entry that remains in a child list keeps its mtime      *)
(* field.                                                                  *)
(***************************************************************************)
Mtimes(items) == [i \in 1..Len(items) |-> <<items[i][1], items[i][5]>>]

RemoveKeepsMtimes(pre, post, p) ==
    /\ DOMAIN post.mtimes = DOMAIN pre.mtimes \ {p}
    /\ \A q \in DOMAIN post.mtimes : post.mtimes[q] = pre.mtimes[q]
    /\ \A D \in DOMAIN post.cache :
          Mtimes(post.cache[D]) =
              SelectSeq(Mtimes(pre.cache[D]), LAMBDA e : join(D, e[1]) # p)

C14_RemoveKeepsMtimes ==
    [][lastOp'.op = "remove" =>
          RemoveKeepsMtimes(directory_cache, directory_cache', abspath(lastOp'.path))]_vars

\* /d/s/g, the newest entry under /d/s, was removed: /d/s and /d still carry
\* its mtime, above every entry that remains in /d/s
C14_Witness ==
    /\ lastOp = Op("remove", p_d_s_g)
    /\ p_d_s_g \notin DOMAIN directory_cache.mtimes
    /\ p_d_s \in DOMAIN directory_cache.cache
    /\ p_d \in DOMAIN directory_cache.mtimes
    /\ directory_cache.mtimes[p_d_s] = 5
    /\ directory_cache.mtimes[p_d] = 5
    /\ \A i \in 1..Len(directory_cache.cache[p_d_s]) :
          directory_cache.cache[p_d_s][i][5] < 5

(***************************************************************************)
(* C15: set_filter, toggle_hidden and cycle_sort leave scan_root, cache,   *)
(* sizes and mtimes as they were, and each changes its own field only:     *)
(* set_filter sets filter_text to its argument, toggle_hidden negates      *)
(* show_hidden, cycle_sort moves sort_mode to another mode.                *)
(***************************************************************************)
SameScan(pre, post) ==
    /\ post.scan_root = pre.scan_root
    /\ post.cache = pre.cache
    /\ post.sizes = pre.sizes
    /\ post.mtimes = pre.mtimes

ViewMutatorPost(pre, post, op) ==
    /\ SameScan(pre, post)
    /\ op.op = "set_filter" =>
          /\ post.filter_text = op.path
          /\ post.show_hidden = pre.show_hidden
          /\ post.sort_mode = pre.sort_mode
    /\ op.op = "toggle_hidden" =>
          /\ post.show_hidden = ~pre.show_hidden
          /\ post.filter_text = pre.filter_text
          /\ post.sort_mode = pre.sort_mode
    /\ op.op = "cycle_sort" =>
          /\ post.sort_mode # pre.sort_mode
          /\ post.filter_text = pre.filter_text
          /\ post.show_hidden = pre.show_hidden

C15_ViewMutatorsFrame ==
    [][lastOp'.op \in {"set_filter", "toggle_hidden", "cycle_sort"} =>
          ViewMutatorPost(directory_cache, directory_cache', lastOp')]_vars

\* a filter was set on a scanned cache whose other view fields had been
\* moved off their defaults
C15_Witness ==
    /\ lastOp = Op("set_filter", <<"K">>)
    /\ directory_cache.filter_text = <<"K">>
    /\ directory_cache.scan_root = p_d2
    /\ p_d2 \in DOMAIN directory_cache.cache
    /\ ~directory_cache.show_hidden
    /\ directory_cache.sort_mode = "date"

(***************************************************************************)
(* C16: cycle_sort advances sort_mode size -> name -> date -> size: after  *)
(* n calls from the default, sort_mode is element n mod 3 of (size, name,  *)
(* date); it is always one of the three, and three more calls bring back   *)
(* the mode they started from.                                             *)
(***************************************************************************)
C16_SortModeCycles ==
    /\ directory_cache.sort_mode = <<"size", "name", "date">>[(cycles % 3) + 1]
    /\ directory_cache.sort_mode \in {"size", "name", "date"}
    /\ cycle_sort(cycle_sort(cycle_sort(directory_cache))).sort_mode
          = directory_cache.sort_mode

\* the fourth call: past the wrap-around
C16_Witness ==
    /\ lastOp.op = "cycle_sort"
    /\ cycles = 4
    /\ directory_cache.sort_mode = "name"

(***************************************************************************)
(* Case-insensitive substring and the view's stated filter, written on     *)
(* the characters themselves.                                              *)
(***************************************************************************)
SameLetter(a, b) ==
    \/ a = b
    \/ \E i \in 1..Len(Upper) : {a, b} = {Upper[i], Lower[i]}

ContainsFold(name, text) ==
    \E k \in 0..(Len(name) - Len(text)) :
        \A i \in 1..Len(text) : SameLetter(name[k + i], text[i])

\* the entry passes the hidden setting and the filter text of self
Shown(self, item) ==
    /\ self.show_hidden \/ ~item[4]
    /\ \/ self.filter_text = None
       \/ self.filter_text = <<>>
       \/ ContainsFold(item[1], self.filter_text)

\* the entries are in the order the sort mode asks for
InOrder(mode, items) ==
    \A i, j \in 1..Len(items) :
        i < j =>
            CASE mode = "size" -> items[i][2] >= items[j][2]
              [] mode = "name" -> ~str_lt(lower(items[j][1]), lower(items[i][1]))
              [] mode = "date" -> items[i][5] >= items[j][5]
              [] OTHER -> FALSE

(***************************************************************************)
(* C17: scan_directory_tree, remove_item and invalidate leave show_hidden, *)
(* sort_mode and filter_text as they were, and the list a scan returns is  *)
(* made of the entries of the new root listing that pass the hidden        *)
(* setting and filter text chosen before the scan, in the order of the     *)
(* sort mode chosen before the scan.                                       *)
(***************************************************************************)
SameView(pre, post) ==
    /\ post.show_hidden = pre.show_hidden
    /\ post.sort_mode = pre.sort_mode
    /\ post.filter_text = pre.filter_text

ScanMutatorPost(pre, post, op, returned) ==
    /\ SameView(pre, post)
    /\ op.op = "scan" =>
          LET raw == get(post.cache, post.scan_root, <<>>)
          IN /\ {returned.items[i] : i \in 1..Len(returned.items)}
                   = {raw[i] : i \in {j \in 1..Len(raw) : Shown(pre, raw[j])}}
             /\ InOrder(pre.sort_mode, returned.items)

C17_ViewSurvivesScan ==
    [][lastOp'.op \in {"scan", "remove", "invalidate"} =>
          ScanMutatorPost(directory_cache, directory_cache', lastOp', ret')]_vars

\* a rescan of /d2 with hidden entries off and a filter set returned the one
\* entry of two that passes both
C17_Witness ==
    /\ lastOp = Op("scan", p_d2)
    /\ ~directory_cache.show_hidden
    /\ directory_cache.filter_text = <<"h">>
    /\ directory_cache.sort_mode = "name"
    /\ Len(directory_cache.cache[p_d2]) = 2
    /\ Len(ret.items) = 1

(***************************************************************************)
(* C18: a get_directory call repeated with nothing done in between returns *)
(* the list the first call returned, in the same order; and after          *)
(* cycle_sort alone, once or twice, get_directory returns the same entries *)
(* as often as before, whatever their order.                               *)
(***************************************************************************)
Occurrences(items, item) == Cardinality({i \in 1..Len(items) : items[i] = item})

Elements(items) == {items[i] : i \in 1..Len(items)}

SameEntries(a, b) ==
    /\ a.is_none = b.is_none
    /\ \A item \in Elements(a.items) \cup Elements(b.items) :
          Occurrences(a.items, item) = Occurrences(b.items, item)

C18_ViewRepeatable ==
    /\ lastOp.op = "get_directory" =>
          get_directory(directory_cache, lastOp.path) = ret
    /\ \A dir_path \in QueryPaths :
          LET once == cycle_sort(directory_cache)
              twice == cycle_sort(once)
              listed == get_directory(directory_cache, dir_path)
          IN /\ SameEntries(get_directory(once, dir_path), listed)
             /\ SameEntries(get_directory(twice, dir_path), listed)

\* /d was listed by size (s, f, l); by name the same three entries come in
\* another order
C18_Witness ==
    /\ lastOp = Op("get_directory", p_d)
    /\ directory_cache.sort_mode = "size"
    /\ Len(ret.items) = 3
    /\ LET by_name == get_directory(cycle_sort(directory_cache), p_d)
       IN /\ by_name.items # ret.items
          /\ Elements(by_name.items) = Elements(ret.items)

(***************************************************************************)
(* C19: the read operations get_directory, is_in_scope, search_files,      *)
(* get_largest_files, get_extension_stats and find_duplicates leave the    *)
(* whole object as it was: scan_root, cache (each child list in its stored *)
(* order), sizes, mtimes and the three view fields; none of them rescans.  *)
(***************************************************************************)
ReadOps == {"get_directory", "is_in_scope", "search_files", "get_largest_files",
            "get_extension_stats", "find_duplicates"}

C19_ReadsAreReadOnly ==
    [][lastOp'.op \in ReadOps =>
          /\ directory_cache' = directory_cache
          /\ fs' = fs]_vars

\* /d is stored as f, l, s and was just listed in another order, by size
C19_Witness ==
    /\ lastOp = Op("get_directory", p_d)
    /\ p_d \in DOMAIN directory_cache.cache
    /\ Len(ret.items) = 3
    /\ ret.items # directory_cache.cache[p_d]
    /\ directory_cache.cache[p_d][1][1] = <<"f">>

(***************************************************************************)
(* C20: _apply_filters_and_sort returns exactly the entries of the child   *)
(* list that are not hidden (when show_hidden is false) and whose name     *)
(* contains filter_text whatever the case (when filter_text is set), each  *)
(* as often as it was listed, ordered by size descending, by lower-cased   *)
(* name ascending or by mtime descending according to sort_mode; an empty  *)
(* filter_text filters nothing.                                            *)
(***************************************************************************)
FilteredAndSorted(self, raw, out) ==
    /\ \A item \in Elements(raw) \cup Elements(out) :
          Occurrences(out, item) =
              IF Shown(self, item) THEN Occurrences(raw, item) ELSE 0
    /\ InOrder(self.sort_mode, out)

C20_FilterAndSort ==
    \A D \in DOMAIN directory_cache.cache :
        FilteredAndSorted(directory_cache, directory_cache.cache[D],
            _apply_filters_and_sort(directory_cache, directory_cache.cache[D]))

\* /d2 lists H then .k; with hidden entries on and the filter "K" the view
\* is .k alone, and with the empty filter under the default sort it is .k
\* (16 bytes) before H (4 bytes)
C20_Witness ==
    /\ p_d2 \in DOMAIN directory_cache.cache
    /\ directory_cache.show_hidden
    /\ directory_cache.sort_mode = "size"
    /\ directory_cache.filter_text = <<>>
    /\ LET raw == directory_cache.cache[p_d2]
           out == _apply_filters_and_sort(directory_cache, raw)
       IN /\ Len(raw) = 2 /\ raw[1][1] = <<"H">>
          /\ out = <<raw[2], raw[1]>>
          /\ _apply_filters_and_sort(set_filter(directory_cache, <<"K">>), raw)
                = <<raw[2]>>

(***************************************************************************)
(* Vocabulary of the tree queries.                                         *)
(***************************************************************************)
Min(a, b) == IF a < b THEN a ELSE b

\* the scope a query with argument dir_path works on
Scope(self, dir_path) == target_of(self, dir_path)

\* the cached paths under the scope, on a path-separator boundary
InScope(self, dir_path) ==
    IF ~truthy(Scope(self, dir_path)) THEN {}
    ELSE {p \in DOMAIN self.sizes : Within(p, Scope(self, dir_path))}

\* the cached paths under the scope whose base name matches the text
Matches(self, text, dir_path) ==
    {p \in InScope(self, dir_path) : ContainsFold(basename(p), text)}

\* rows are in descending order of their k-th component
Descending(rows, k) == \A i, j \in 1..Len(rows) : i < j => rows[i][k] >= rows[j][k]

\* the paths of the rows
RowPaths(rows) == {rows[i][1] : i \in 1..Len(rows)}

\* the extension a path is counted under
ExtOf(p) ==
    IF lower(splitext_ext(p)) # <<>> THEN lower(splitext_ext(p)) ELSE <<"no extension">>

(***************************************************************************)
(* C21: search_files returns min(100, m) results, m being the number of    *)
(* cached paths under the scope whose base name matches the text; they     *)
(* are sorted by size, largest first, and no omitted match is larger than  *)
(* a returned one.                                                         *)
(***************************************************************************)
C21_SearchCap ==
    lastOp.op = "search_files" =>
        LET m == Matches(directory_cache, lastOp.arg, lastOp.path)
        IN /\ Len(ret.items) = Min(SearchLimit, Cardinality(m))
           /\ Descending(ret.items, 3)
           /\ \A p \in m \ RowPaths(ret.items) :
                 \A i \in 1..Len(ret.items) : directory_cache.sizes[p] <= ret.items[i][3]

(***************************************************************************)
(* C22: search_files, get_largest_files and get_extension_stats consider   *)
(* only cached paths under the scope: every path returned is the scope or  *)
(* a descendant of it on a path-separator boundary, and every extension    *)
(* total counts only such paths.                                           *)
(***************************************************************************)
C22_QueriesStayInScope ==
    /\ lastOp.op \in {"search_files", "get_largest_files"} =>
          RowPaths(ret.items) \subseteq InScope(directory_cache, lastOp.path)
    /\ lastOp.op = "get_extension_stats" =>
          \A i \in 1..Len(ret.items) :
              ret.items[i][2] =
                  SumOver({p \in InScope(directory_cache, lastOp.path) :
                              isfile(fs, p) /\ ExtOf(p) = ret.items[i][1]},
                          directory_cache.sizes)

(***************************************************************************)
(* C23: get_largest_files excludes directories: no returned path is a key  *)
(* of cache, and the result has at most limit entries, sorted by size,     *)
(* largest first.                                                          *)
(***************************************************************************)
C23_LargestExcludesDirs ==
    lastOp.op = "get_largest_files" =>
        /\ RowPaths(ret.items) \cap DOMAIN directory_cache.cache = {}
        /\ Len(ret.items) <= lastOp.arg
        /\ Descending(ret.items, 3)

(***************************************************************************)
(* Vocabulary of the duplicate finder.                                     *)
(***************************************************************************)
\* the cached files of non-zero size among the paths S
Sized(self, S) == {p \in S \cap CachedFiles(self) : self.sizes[p] > 0}

\* the sets of at least two files of S with the same size and the same hash
DuplicateSets(self, S) ==
    {D \in {{q \in Sized(self, S) : /\ self.sizes[q] = self.sizes[p]
                                    /\ md5_head(q) = md5_head(p)} : p \in Sized(self, S)} :
        Cardinality(D) >= 2}

\* the sets a result of find_duplicates reports
ReportedSets(groups) == {Elements(groups[i].files) : i \in 1..Len(groups)}

(***************************************************************************)
(* C24: find_duplicates reports exactly the sets of cached files under     *)
(* the target that share the same non-zero size and the same hash of       *)
(* their first 64 KiB and have at least 2 members: every reported set has  *)
(* the reported common size, and no file appears in two sets.              *)
(***************************************************************************)
C24_DuplicateSets ==
    lastOp.op = "find_duplicates" =>
        /\ ReportedSets(ret.items) =
              DuplicateSets(directory_cache, InScope(directory_cache, lastOp.path))
        /\ \A i \in 1..Len(ret.items) :
              /\ Len(ret.items[i].files) >= 2
              /\ \A p \in Elements(ret.items[i].files) :
                    /\ directory_cache.sizes[p] = ret.items[i].size
                    /\ Occurrences(ret.items[i].files, p) = 1
                    /\ \A j \in 1..Len(ret.items) :
                          j # i => p \notin Elements(ret.items[j].files)

(***************************************************************************)
(* Vocabulary of the per-entry errors of the walk.                         *)
(***************************************************************************)
\* the files the walk from root_path meets whose os.stat fails
Failing(fsys, root_path) ==
    {p \in Elements(walked_files(walk(fsys, abspath(root_path)))) :
        ~islink(fsys, p) /\ ~can_stat(fsys, p)}

\* the scan as it would be had os.stat(u) succeeded
ScanHad(self, fsys, root_path, u) ==
    scan_directory_tree(self, fsys \cup {Granted(u)}, root_path)

\* u has an entry in the child list of its parent
ListedInParent(self, u) ==
    /\ dirname(u) \in DOMAIN self.cache
    /\ \E i \in 1..Len(self.cache[dirname(u)]) : self.cache[dirname(u)][i][1] = basename(u)

\* the failing file has size 0 and mtime 0 and is listed in its parent
RecordedAsZero(self, u) ==
    /\ u \in DOMAIN self.sizes /\ self.sizes[u] = 0
    /\ u \in DOMAIN self.mtimes /\ self.mtimes[u] = 0
    /\ ListedInParent(self, u)

\* two child lists of d agree, but for the size and the mtime of the
\* entries of the paths in S
SameButFor(d, a, b, S) ==
    /\ Len(a) = Len(b)
    /\ \A i \in 1..Len(a) :
          \/ a[i] = b[i]
          \/ /\ join(d, a[i][1]) \in S
             /\ a[i][1] = b[i][1] /\ a[i][3] = b[i][3] /\ a[i][4] = b[i][4]

\* u and the directories above it
Chain(u) == {u} \cup {d \in AllPaths : Under(u, d)}

(***************************************************************************)
(* C25 as stated: the file whose os.stat fails is recorded with size 0     *)
(* and mtime 0 and listed in its parent, and every other file and          *)
(* directory is recorded exactly as if that file had been readable.        *)
(***************************************************************************)
C25_ErrorLeavesOthersExact ==
    lastOp.op = "scan" =>
        \A u \in Failing(fs, lastOp.path) :
            LET had == ScanHad(directory_cache, fs, lastOp.path, u)
            IN /\ RecordedAsZero(directory_cache, u)
               /\ DOMAIN directory_cache.sizes = DOMAIN had.sizes
               /\ DOMAIN directory_cache.cache = DOMAIN had.cache
               /\ \A p \in DOMAIN had.sizes \ {u} :
                     /\ directory_cache.sizes[p] = had.sizes[p]
                     /\ directory_cache.mtimes[p] = had.mtimes[p]
                     /\ p \in DOMAIN had.cache => directory_cache.cache[p] = had.cache[p]

(***************************************************************************)
(* C25 amended: the file whose os.stat fails is recorded with size 0 and   *)
(* mtime 0 and listed in its parent, the scan records the same paths as    *)
(* if that file had been readable, every path other than the file and      *)
(* the directories above it has the same size and mtime, and every child   *)
(* list is the same but for the size and mtime of the entries of the file  *)
(* and of the directories above it.                                        *)
(***************************************************************************)
C25_ErrorDoesNotAbort ==
    lastOp.op = "scan" =>
        \A u \in Failing(fs, lastOp.path) :
            LET had == ScanHad(directory_cache, fs, lastOp.path, u)
            IN /\ RecordedAsZero(directory_cache, u)
               /\ DOMAIN directory_cache.sizes = DOMAIN had.sizes
               /\ DOMAIN directory_cache.mtimes = DOMAIN had.mtimes
               /\ DOMAIN directory_cache.cache = DOMAIN had.cache
               /\ \A p \in DOMAIN had.sizes \ Chain(u) :
                     /\ directory_cache.sizes[p] = had.sizes[p]
                     /\ directory_cache.mtimes[p] = had.mtimes[p]
               /\ \A d \in DOMAIN had.cache :
                     SameButFor(d, directory_cache.cache[d], had.cache[d], Chain(u))

C25_Witness ==
    /\ lastOp.op = "scan"
    /\ p_d_s_u \in Failing(fs, lastOp.path)
    /\ p_d_s_f \in DOMAIN directory_cache.sizes
    /\ directory_cache.sizes[p_d_s_f] = 1
    /\ ScanHad(directory_cache, fs, lastOp.path, p_d_s_u).sizes[p_d_s_u] = 8
    /\ ScanHad(directory_cache, fs, lastOp.path, p_d_s_u).sizes[p_d_s] = 11
    /\ directory_cache.sizes[p_d_s] = 3

(***************************************************************************)
(* Vocabulary of the symlinks.                                             *)
(***************************************************************************)
\* the symlinks the scan finds: those in a directory the walk has listed
FoundLinks(self, fsys) ==
    {l \in fsys : islink(fsys, l) /\ dirname(l) \in DOMAIN self.cache}

\* the entries of u in the child list of its parent
EntriesOf(self, u) ==
    {i \in 1..Len(self.cache[dirname(u)]) : self.cache[dirname(u)][i][1] = basename(u)}

\* the filesystem without l and without what is seen through it
Without(fsys, l) == {q \in fsys : q # l /\ ~Under(q, l)}

(***************************************************************************)
(* C26: every symlink the scan finds has an entry in the child list of     *)
(* its parent with size 0 and mtime 0, is not descended into (it is no     *)
(* key of cache and nothing under it is recorded), and adds 0 to the       *)
(* aggregate size of every directory above it: each has the size it has    *)
(* in a scan of the tree without the symlink.                              *)
(***************************************************************************)
C26_SymlinksCountZero ==
    lastOp.op = "scan" =>
        \A l \in FoundLinks(directory_cache, fs) :
            /\ EntriesOf(directory_cache, l) # {}
            /\ \A i \in EntriesOf(directory_cache, l) :
                  /\ directory_cache.cache[dirname(l)][i][2] = 0
                  /\ directory_cache.cache[dirname(l)][i][5] = 0
            /\ l \notin DOMAIN directory_cache.cache
            /\ \A q \in DOMAIN directory_cache.sizes \cup DOMAIN directory_cache.cache :
                  ~Under(q, l)
            /\ \A d \in DOMAIN directory_cache.cache :
                  Under(l, d) =>
                      directory_cache.sizes[d] =
                          scan_directory_tree(directory_cache, Without(fs, l),
                                              lastOp.path).sizes[d]

C26_Witness ==
    /\ lastOp.op = "scan"
    /\ {p_d_l, p_ld} \subseteq FoundLinks(directory_cache, fs)
    /\ p_ld_t \in fs
    /\ directory_cache.sizes[p_d] > 0

(***************************************************************************)
(* C27: between operations, sizes and mtimes have the same keys and every  *)
(* key of cache is a key of both.                                          *)
(***************************************************************************)
C27_MapsInStep ==
    /\ DOMAIN directory_cache.sizes = DOMAIN directory_cache.mtimes
    /\ DOMAIN directory_cache.cache \subseteq DOMAIN directory_cache.sizes

C27_Witness ==
    /\ lastOp = Op("remove", p_d_s)
    /\ p_d_s \notin DOMAIN directory_cache.sizes
    /\ p_d_s_g \in DOMAIN directory_cache.mtimes
    /\ p_d \in DOMAIN directory_cache.cache

(***************************************************************************)
(* C28: scan_root is set only when cache is non-empty.                     *)
(***************************************************************************)
C28_RootOnlyWithChildren ==
    directory_cache.scan_root # None => DOMAIN directory_cache.cache # {}

(***************************************************************************)
(* C29: the spinner never alters scan outcomes: a step of a spinner        *)
(* thread leaves the running flag, the current folder, the folder count    *)
(* and the cache as they are, and when a scan returns, whatever the        *)
(* spinner threads did in between, scan_root, cache, sizes and mtimes are  *)
(* those of the scan run alone.                                            *)
(***************************************************************************)
C29_SpinnerKeepsOutcome ==
    [][/\ (\E i \in DOMAIN spinner.threads : ShowSpinner(i)) =>
              /\ directory_cache' = directory_cache
              /\ spinner'.spinner_running = spinner.spinner_running
              /\ spinner'.spinner_current_folder = spinner.spinner_current_folder
              /\ spinner'.spinner_folder_count = spinner.spinner_folder_count
       /\ (scanning.pc = "join" /\ scanning'.pc = "idle") =>
              LET alone == scan_directory_tree(directory_cache, fs, scanning.root_path)
              IN /\ directory_cache'.scan_root = alone.scan_root
                 /\ directory_cache'.cache = alone.cache
                 /\ directory_cache'.sizes = alone.sizes
                 /\ directory_cache'.mtimes = alone.mtimes]_vars

C29_Witness ==
    /\ lastOp.op = "scan"
    /\ scanning.pc = "idle"
    /\ DOMAIN directory_cache.cache # {}
    /\ \E i \in DOMAIN spinner.threads : spinner.threads[i].shown[2] > 0

(***************************************************************************)
(* C30: list_directory_cached(dir, force_rescan) serves from the cache     *)
(* (is_cached true, scan state unchanged) iff force_rescan is false, dir   *)
(* is in scope and dir is a key of cache; in every other case it runs a    *)
(* full scan rooted at dir, after which scan_root is dir and is_cached is  *)
(* false.                                                                  *)
(***************************************************************************)
C30_ServedIffCachedInScope ==
    [][lastOp'.op = "list_directory_cached" =>
          LET dir == abspath(lastOp'.path)
              servable == /\ ~lastOp'.arg
                          /\ directory_cache.scan_root # None
                          /\ Within(dir, directory_cache.scan_root)
                          /\ dir \in DOMAIN directory_cache.cache
          IN IF servable
             THEN /\ ret'.pair[2] = TRUE
                  /\ directory_cache' = directory_cache
             ELSE /\ ret'.pair[2] = FALSE
                  /\ directory_cache'.scan_root = dir]_vars

(***************************************************************************)
(* C34: after a scan and any sequence of remove_item calls, every value    *)
(* of sizes is >= 0.                                                       *)
(***************************************************************************)
C34_SizesNonNegative ==
    \A p \in DOMAIN directory_cache.sizes : directory_cache.sizes[p] >= 0

(***************************************************************************)
(* C35: after remove_item(d) for a cached directory d, no descendant of d  *)
(* remains as a key of sizes, mtimes or cache.                             *)
(***************************************************************************)
C35_RemoveTakesDescendants ==
    [][(/\ lastOp'.op = "remove"
        /\ abspath(lastOp'.path) \in DOMAIN directory_cache.cache) =>
           \A q \in DOMAIN directory_cache'.sizes \cup DOMAIN directory_cache'.mtimes
                    \cup DOMAIN directory_cache'.cache :
               ~Under(q, abspath(lastOp'.path))]_vars

(***************************************************************************)
(* C36: after scan_directory_tree the cache is closed under children:      *)
(* every entry flagged as a directory in some child list is itself a key   *)
(* of cache and of sizes.                                                  *)
(***************************************************************************)
C36_ClosedUnderChildren ==
    lastOp.op = "scan" =>
        \A d \in DOMAIN directory_cache.cache :
            \A i \in 1..Len(directory_cache.cache[d]) :
                directory_cache.cache[d][i][3] =>
                    /\ join(d, directory_cache.cache[d][i][1]) \in DOMAIN directory_cache.cache
                    /\ join(d, directory_cache.cache[d][i][1]) \in DOMAIN directory_cache.sizes

(***************************************************************************)
(* C37: at most one spinner thread is running at any time.                 *)
(***************************************************************************)
C37_AtMostOneSpinner == Len(spinner.threads) <= 1

(***************************************************************************)
(* parse_selection (lib/file_operations.py), on strings over a small       *)
(* alphabet: three digits, the comma, the dash, the space and a letter.    *)
(***************************************************************************)
MaxLen == 4          \* length of the selection strings explored
MaxItems == 3        \* number of listed items explored

Digits == <<"0", "1", "2", "3", "4", "5", "6", "7", "8", "9">>
SelChars == {"0", "1", "3", ",", "-", " ", "a"}
SelStrings == UNION {[1..k -> SelChars] : k \in 0..MaxLen}

\* s.replace(old, '') for a one-character old
replace_none(s, old) == SelectSeq(s, LAMBDA ch : ch # old)

\* int(s) raises ValueError unless s is a non-empty run of digits (no sign,
\* space or underscore is in the alphabet)
int_ok(s) == s # <<>> /\ \A i \in 1..Len(s) : \E d \in 1..10 : Digits[d] = s[i]

RECURSIVE int(_)
int(s) ==
    IF s = <<>> THEN 0
    ELSE 10 * int(SubSeq(s, 1, Len(s) - 1))
         + (CHOOSE d \in 0..9 : Digits[d + 1] = s[Len(s)])

\* faulty variant of parse_part: a range is added without the bounds test
parse_part_unbounded(part, max_items) ==
    IF \E i \in 1..Len(part) : part[i] = "-"
    THEN LET pieces == split(part, "-")
         IN IF Len(pieces) # 2 \/ ~int_ok(pieces[1]) \/ ~int_ok(pieces[2])
            THEN {}
            ELSE {i \in (int(pieces[1]) - 1)..(int(pieces[2]) - 1) : 0 <= i}
    ELSE IF ~int_ok(part) THEN {}
    ELSE {i \in {int(part) - 1} : 0 <= i /\ i < max_items}

\* one turn of the loop over the parts: the indices the part adds; a
\* ValueError (unpacking other than two pieces, int of a non-number) adds none
parse_part(part, max_items) ==
    IF \E i \in 1..Len(part) : part[i] = "-"
    THEN LET pieces == split(part, "-")
         IN IF Len(pieces) # 2 \/ ~int_ok(pieces[1]) \/ ~int_ok(pieces[2])
            THEN {}
            ELSE {i \in (int(pieces[1]) - 1)..(int(pieces[2]) - 1) :
                     0 <= i /\ i < max_items}
    ELSE IF ~int_ok(part) THEN {}
    ELSE {i \in {int(part) - 1} : 0 <= i /\ i < max_items}

\* sorted(list(indices))
RECURSIVE sorted_list(_)
sorted_list(indices) ==
    IF indices = {} THEN <<>>
    ELSE LET m == CHOOSE x \in indices : \A y \in indices : x <= y
         IN <<m>> \o sorted_list(indices \ {m})

parse_selection(selection_str, max_items) ==
    LET parts == split(replace_none(selection_str, " "), ",")
    IN sorted_list(UNION {parse_part(parts[k], max_items) : k \in 1..Len(parts)})

\* the arguments of the call are drawn at the start
InitParse ==
    /\ fs = Universe
    /\ directory_cache = [scan_root |-> None, cache |-> <<>>, sizes |-> <<>>,
                          mtimes |-> <<>>, show_hidden |-> TRUE,
                          sort_mode |-> "size", filter_text |-> None]
    /\ removes = 0
    /\ cycles = 0
    /\ \E selection_str \in SelStrings, max_items \in 0..MaxItems :
          lastOp = OpArg("call", selection_str, max_items)
    /\ ret = NotCached
    /\ spinner = SpinnerGlobals
    /\ scanning = NoScan
    /\ main = Locals(p_d)

ParseSelection ==
    /\ lastOp.op = "call"
    /\ ret' = Listed(parse_selection(lastOp.path, lastOp.arg))
    /\ lastOp' = OpArg("parse_selection", lastOp.path, lastOp.arg)
    /\ UNCHANGED <<fs, directory_cache, removes, cycles, spinner, scanning, main>>

NextParse == ParseSelection

SpecParse == InitParse /\ [][NextParse]_vars

\* the decimal numeral of v, w digits wide
Decimal(v, w) == [i \in 1..w |-> Digits[((v \div (10 ^ (w - i))) % 10) + 1]]

\* the text t is a numeral of the number v
Denotes(t, v) == t # <<>> /\ v < 10 ^ Len(t) /\ t = Decimal(v, Len(t))

\* the text t is a numeral
Numeral(t) == t # <<>> /\ \A i \in 1..Len(t) : t[i] \in {"0", "1", "2", "3", "4", "5", "6", "7", "8", "9"}

\* the comma-separated parts of s, spaces dropped
PartsOf(s) ==
    LET t == SelectSeq(s, LAMBDA ch : ch # " ")
        cuts == <<0>> \o SelectSeq([i \in 1..Len(t) |-> i], LAMBDA i : t[i] = ",")
                      \o <<Len(t) + 1>>
    IN {SubSeq(t, cuts[k] + 1, cuts[k + 1] - 1) : k \in 1..(Len(cuts) - 1)}

\* the 1-based number k is named by the part: the part is its numeral, or a
\* range "lo-hi" of two numerals with lo <= k <= hi
Names(part, k) ==
    \/ Denotes(part, k)
    \/ \E c \in 1..Len(part) :
          /\ part[c] = "-"
          /\ Numeral(SubSeq(part, 1, c - 1))
          /\ Numeral(SubSeq(part, c + 1, Len(part)))
          /\ \E lo \in 0..k : Denotes(SubSeq(part, 1, c - 1), lo)
          /\ ~\E hi \in 0..(k - 1) : Denotes(SubSeq(part, c + 1, Len(part)), hi)

(***************************************************************************)
(* C33: parse_selection returns a strictly increasing list of 0-based      *)
(* indices, each in [0, max_items), holding exactly the numbers and        *)
(* inclusive ranges named by the well-formed parts; malformed parts and    *)
(* out-of-range numbers are ignored.                                       *)
(***************************************************************************)
C33_ParseSelection ==
    lastOp.op = "parse_selection" =>
        /\ \A i, j \in 1..Len(ret.items) : i < j => ret.items[i] < ret.items[j]
        /\ \A i \in 1..Len(ret.items) :
              0 <= ret.items[i] /\ ret.items[i] < lastOp.arg
        /\ \A x \in 0..(lastOp.arg - 1) :
              (\E i \in 1..Len(ret.items) : ret.items[i] = x)
                 <=> \E part \in PartsOf(lastOp.path) : Names(part, x + 1)

\* the open range "1-" is ignored and the number 3 is kept
C33_Witness ==
    /\ lastOp = OpArg("parse_selection", <<"3", ",", "1", "-">>, 3)
    /\ ret.items = <<2>>

(***************************************************************************)
(* remove_item step by step: lines 139-157 in one step, then one step per  *)
(* test of the "while" of lines 159-165.  visited records the values of    *)
(* current for which the body of the loop ran.                             *)
(***************************************************************************)
WalkRoots == {p_root, p_d, p_d_s}
WalkPaths == {p_root, p_d, p_d_f, p_d_s, p_d_s_g, p_d2_h, p_nx}

\* line 160: the test of the loop
walk_test(self, current) == current # <<>> /\ is_in_scope(self, current)

\* faulty variant of walk_turn: no "break" at the root of the filesystem
walk_turn_no_break(self, current, item_size) ==
    [self |-> IF current \in DOMAIN self.sizes
              THEN [self EXCEPT !.sizes[current] = @ - item_size]
              ELSE self,
     current |-> dirname(current),
     break |-> FALSE]

\* lines 161-165: one turn of the loop
walk_turn(self, current, item_size) ==
    [self |-> IF current \in DOMAIN self.sizes
              THEN [self EXCEPT !.sizes[current] = @ - item_size]
              ELSE self,
     current |-> dirname(current),
     break |-> dirname(current) = dirname(dirname(current))]

RemoveBegin(item_path) ==
    /\ scanning.pc = "idle"
    /\ removes < MaxRemoves
    /\ directory_cache' = remove_from_parent(remove_own(directory_cache, abspath(item_path)),
                                             dirname(abspath(item_path)),
                                             basename(abspath(item_path)))
    /\ scanning' = [pc |-> "up", item_path |-> item_path,
                    item_size |-> get(directory_cache.sizes, abspath(item_path), 0),
                    current |-> dirname(abspath(item_path)),
                    visited |-> <<>>]
    /\ removes' = removes + 1
    /\ UNCHANGED <<fs, cycles, lastOp, ret, spinner, main>>

\* one test of the loop and, when it passes, one turn; when the test fails or
\* the turn breaks the loop is over
RemoveTurn ==
    /\ scanning.pc = "up"
    /\ IF walk_test(directory_cache, scanning.current)
       THEN \E t \in {walk_turn(directory_cache, scanning.current, scanning.item_size)} :
              /\ directory_cache' = t.self
              /\ scanning' = [scanning EXCEPT
                                 !.pc = IF t.break THEN "returned" ELSE "up",
                                 !.current = t.current,
                                 !.visited = Append(@, scanning.current)]
       ELSE /\ scanning' = [scanning EXCEPT !.pc = "returned"]
            /\ UNCHANGED directory_cache
    /\ IF scanning'.pc = "returned"
       THEN ret' = NotCached /\ lastOp' = Op("remove", scanning.item_path)
       ELSE UNCHANGED <<ret, lastOp>>
    /\ UNCHANGED <<fs, removes, cycles, spinner, main>>

\* remove_item returns to its caller
RemoveReturn ==
    /\ scanning.pc = "returned"
    /\ scanning' = NoScan
    /\ UNCHANGED <<fs, directory_cache, removes, cycles, lastOp, ret, spinner, main>>

NextWalk ==
    \/ \E root_path \in WalkRoots : scanning.pc = "idle" /\ ScanDirectoryTree(root_path)
    \/ \E item_path \in WalkPaths : RemoveBegin(item_path)
    \/ RemoveTurn
    \/ RemoveReturn

\* the interpreter runs the loop on: a call that has started keeps stepping
SpecWalk == Init /\ [][NextWalk]_vars /\ WF_vars(RemoveTurn)

(***************************************************************************)
(* C32: the upward walk of remove_item terminates for every path and scan  *)
(* root, visits no path twice and visits no path above scan_root.          *)
(***************************************************************************)
C32_WalkTerminates ==
    /\ [](scanning.pc \in {"up", "returned"} =>
            /\ \A i, j \in 1..Len(scanning.visited) :
                  i < j => scanning.visited[i] # scanning.visited[j]
            /\ \A i \in 1..Len(scanning.visited) :
                  /\ directory_cache.scan_root # None
                  /\ Within(scanning.visited[i], directory_cache.scan_root))
    /\ (scanning.pc = "up" ~> scanning.pc = "returned")

\* a walk from /d/s/g under the scan root /d that went up through /d/s and /d
C32_Witness ==
    /\ scanning.pc = "returned"
    /\ scanning.item_path = p_d_s_g
    /\ directory_cache.scan_root = p_d
    /\ scanning.visited = <<p_d_s, p_d>>

(***************************************************************************)
(* The interactive loop of main() (DiskMan.py): the listing at the top of  *)
(* the loop, then one command.  main.pc is "list" before the listing and   *)
(* "input" at the prompt.                                                  *)
(***************************************************************************)
Home == p_d2
MainDirs == {p_d, p_nx}
MainSelections == {<<"1">>, <<"2", ",", "1">>, <<"1", "-", "3">>, <<"a">>}

\* faulty variant of force_after: a rescan is asked for only when something
\* was deleted or moved
force_after_success(results) == \E i \in 1..Len(results) : results[i][2]

\* lines 415, 439, 458: "force_rescan = True" after the loop over the items
force_after(results) == TRUE

\* faulty variant of after_listing: the flag is left as it was
after_listing_keeps(force_rescan) == force_rescan

\* line 244: "force_rescan = False"
after_listing(force_rescan) == FALSE

InitMain ==
    /\ fs = Universe
    /\ directory_cache = [scan_root |-> None, cache |-> <<>>, sizes |-> <<>>,
                          mtimes |-> <<>>, show_hidden |-> TRUE,
                          sort_mode |-> "size", filter_text |-> None]
    /\ removes = 0
    /\ cycles = 0
    /\ lastOp = Op("init", None)
    /\ ret = NotCached
    /\ spinner = SpinnerGlobals
    /\ scanning = NoScan
    /\ \E current_dir \in MainDirs : main = Locals(current_dir)

\* lines 235-244: the directory is validated and listed
MainList ==
    /\ main.pc = "list"
    /\ \E current_dir \in {IF isdir(fs, main.current_dir) THEN main.current_dir ELSE Home},
          force_rescan \in {main.force_rescan \/ ~isdir(fs, main.current_dir)} :
       \E out \in {list_directory_cached(directory_cache, fs, current_dir, force_rescan)} :
          /\ directory_cache' = out.self
          /\ ret' = Pair(out.items, out.is_cached)
          /\ removes' = IF out.is_cached THEN removes ELSE 0
          /\ lastOp' = OpArg("list_directory_cached", current_dir, force_rescan)
          /\ main' = [pc |-> "input", current_dir |-> current_dir,
                      force_rescan |-> after_listing(force_rescan),
                      items |-> out.items]
    /\ UNCHANGED <<fs, cycles, spinner, scanning>>

\* lines 281-282: 'r'
MainRefresh ==
    /\ main.pc = "input"
    /\ main' = [main EXCEPT !.pc = "list", !.force_rescan = TRUE]
    /\ UNCHANGED <<fs, directory_cache, removes, cycles, lastOp, ret, spinner, scanning>>

\* lines 626-632: a number enters the listed directory
MainEnter(idx) ==
    /\ main.pc = "input"
    /\ 0 <= idx /\ idx < Len(main.items)
    /\ main.items[idx + 1][3]
    /\ main' = [main EXCEPT !.pc = "list",
                            !.current_dir = join(main.current_dir, main.items[idx + 1][1])]
    /\ UNCHANGED <<fs, directory_cache, removes, cycles, lastOp, ret, spinner, scanning>>

\* the paths of the rows picked by the 0-based indices
picked_paths(items, current_dir, indices) ==
    [i \in 1..Len(indices) |-> join(current_dir, items[indices[i] + 1][1])]

\* lines 395-440: 'd' and 'D'; confirm is the answer to show_delete_confirmation
MainDelete(use_trash) ==
    /\ main.pc = "input"
    /\ \E sel \in MainSelections, confirm \in BOOLEAN :
       \E indices \in {parse_selection(sel, Len(main.items))} :
       \E item_details \in {SelectSeq(picked_paths(main.items, main.current_dir, indices),
                                      LAMBDA q : get_item_details(fs, q))} :
          IF indices # <<>> /\ item_details # <<>> /\ confirm
          THEN \E perm \in [1..Len(item_details) -> Perms] :
                 /\ Distinct(fs, item_details, perm, use_trash)
                 /\ \E out \in {delete_loop(directory_cache, fs, item_details,
                                            use_trash, perm)} :
                     /\ directory_cache' = out.self
                     /\ fs' = out.fs
                     /\ ret' = Done(out.results)
                     /\ lastOp' = Op(IF use_trash THEN "d" ELSE "D", main.current_dir)
                     /\ main' = [main EXCEPT !.pc = "list",
                                             !.force_rescan = force_after(out.results)]
          ELSE /\ main' = [main EXCEPT !.pc = "list"]
               /\ UNCHANGED <<fs, directory_cache, lastOp, ret>>
    /\ UNCHANGED <<removes, cycles, spinner, scanning>>

\* lines 443-462: 'm'; dest_is_dir is os.path.isdir(dest)
MainMove ==
    /\ main.pc = "input"
    /\ \E sel \in MainSelections, dest_is_dir \in BOOLEAN :
       \E indices \in {parse_selection(sel, Len(main.items))} :
       \E paths \in {picked_paths(main.items, main.current_dir, indices)} :
          IF indices # <<>> /\ dest_is_dir
          THEN \E perm \in [1..Len(paths) -> Perms] :
                 /\ Distinct(fs, paths, perm, FALSE)
                 /\ \E out \in {move_loop(directory_cache, fs, paths, perm)} :
                     /\ directory_cache' = out.self
                     /\ fs' = out.fs
                     /\ ret' = Done(out.results)
                     /\ lastOp' = Op("m", main.current_dir)
                     /\ main' = [main EXCEPT !.pc = "list",
                                             !.force_rescan = force_after(out.results)]
          ELSE /\ main' = [main EXCEPT !.pc = "list"]
               /\ UNCHANGED <<fs, directory_cache, lastOp, ret>>
    /\ UNCHANGED <<removes, cycles, spinner, scanning>>

NextMain ==
    \/ MainList
    \/ MainRefresh
    \/ \E idx \in 0..(MaxItems - 1) : MainEnter(idx)
    \/ \E use_trash \in BOOLEAN : MainDelete(use_trash)
    \/ MainMove

SpecMain == InitMain /\ [][NextMain]_vars

(***************************************************************************)
(* C31: after a confirmed 'd', 'D' or 'm', whether or not anything was     *)
(* deleted or moved, force_rescan is set and the loop is at its listing;   *)
(* a listing with force_rescan set is a full rescan rooted at the current  *)
(* directory, and force_rescan is false after every listing.               *)
(***************************************************************************)
C31_RescanAfterCommand ==
    [][/\ (main.pc = "input" /\ lastOp'.op \in {"d", "D", "m"}) =>
              main'.pc = "list" /\ main'.force_rescan
       /\ (main.pc = "list" /\ main.force_rescan) =>
              /\ main'.pc = "input"
              /\ ret'.pair[2] = FALSE
              /\ directory_cache'.scan_root = abspath(main'.current_dir)
              /\ directory_cache'.sizes =
                    scan_directory_tree(directory_cache, fs, main'.current_dir).sizes
              /\ ret'.pair[1] = scan_result(directory_cache')
       /\ main.pc = "list" => ~main'.force_rescan]_vars

\* a 'd' or 'D' whose only item could not be deleted: the loop is back at its
\* listing with force_rescan set
C31_Witness ==
    /\ main.pc = "list" /\ main.force_rescan
    /\ lastOp.op \in {"d", "D"}
    /\ \A i \in 1..Len(ret.items) : ~ret.items[i][2]

====
